---- MODULE Spec2Model ----
(***************************************************************************)
(* A model of the simverse command-to-motion core: the trajectory          *)
(* integrator (lib/trajectory.ts), the ray sensor (sim/sensors), the       *)
(* Python host (lib/pythonRunner.ts), the command translator               *)
(* (lib/programBuilder.ts) and the result report of the mission views.     *)
(*                                                                         *)
(* Numbers.  A JavaScript number is modelled as an exact rational <<n, d>> *)
(* in lowest terms with d > 0, so + - * / are the real-number operations   *)
(* the code's floating point approximates.  <<1, 0>> and <<-1, 0>> stand   *)
(* for Infinity and -Infinity.  An angle in radians is held in units of    *)
(* PI: the number k stands for k*PI radians, so Math.PI is the rational 1  *)
(* of that unit and (deg * Math.PI) / 180 is deg / 180.                    *)
(***************************************************************************)
EXTENDS Integers, Sequences, FiniteSets, TLC

VARIABLES
    program,      \* the primitive list handed to buildTrajectory
    startPose,    \* buildTrajectory's startPose argument
    dt,           \* buildTrajectory's dt argument
    samples,      \* the PoseSample[] buildTrajectory returned
    sensorPose,   \* computeFrontDistance's pose argument
    world,        \* computeFrontDistance's world.obstacles
    maxRange,     \* computeFrontDistance's maxRange argument
    reading,      \* the distance computeFrontDistance returned
    hostStart,    \* runPython's startPose argument
    hostWorld,    \* runPython's world.obstacles
    primitives,   \* runPython's primitives array
    currentPose,  \* runPython's currentPose
    runState,     \* "running", then "resolved" or "rejected"
    calls,        \* history: the builtin calls the script has made
    lastProbe,    \* history: the latest get_front_distance call, or <<>>
    viewKind,     \* which mission view is mounted
    viewMission,  \* the view's mission.world
    viewProgram,  \* the view's program prop
    trajectory,   \* the view's transformed trajectory
    stepIndex,    \* the view's stepIndex
    isAnimating,  \* the view's isAnimating
    hasReportedResult,  \* the view's hasReportedResult
    reported,     \* history: the latest onResult call, or <<>>
    commands,     \* buildProgram's commands argument
    built,        \* what buildProgram returns for it
    builtLegacy,  \* what the earlier buildProgram returns for it
    callProgram,  \* buildTrajectory, step by step: its program argument
    callDt,       \* its dt argument
    callPc,       \* the index of the primitive the for loop is at
    callLoop,     \* inside a drive: [at, i, steps, dtStep], else <<>>
    callState,    \* the running t, x, y, theta
    callCount,    \* samples.length, counted up to MaxSamples
    callStatus,   \* "running" or "returned"
    scanPose,     \* computeScan: its pose argument
    scanWorld,    \* its world.obstacles
    scanBeams,    \* its numBeams argument
    scanFov,      \* its fovDeg argument
    scanRange,    \* its maxRange argument
    ranges,       \* the number[] computeScan returned
    heap,         \* runPython with objects by reference: the pose objects
    currentPoseRef,  \* the address currentPose holds
    primitiveRefs,   \* the primitives array; a set_pose holds its pose's address
    objRun,       \* "running", "resolved", then "built"
    objSamples,   \* what buildTrajectory returned for the resolved list
    playKind,     \* playback frame by frame: the presentation adapter mounted
    playRunId,    \* its runId prop
    playOnResult, \* the identity of its onResult prop
    playLen,      \* trajectory.length of the current run
    playSuccess,  \* the success flag the adapter computes for the final sample
    playStep,     \* stepIndex
    playAnimating,  \* isAnimating
    playReported, \* hasReportedResult
    playLoops,    \* the animation callbacks requested and not cancelled
    playReports, \* history: the onResult calls since runId changed
    starterWorld,  \* the Mission 2 starter script run by handleRun: worldGeo.obstacles
    starterPc,  \* the statement the script is at
    starterPrimitives,  \* runPython primitives, followed up to MaxStarterMoves
    starterPose,  \* runPython currentPose
    starterD, \* the script variable d
    senseMission,  \* a script run by handleRun and then played by the mission view: the mission
    sensePrimitives,  \* runPython primitives
    sensePose,  \* runPython currentPose
    senseReading,  \* what the last get_front_distance() returned to the script
    senseAt,  \* primitives.length when it was read
    senseStage,  \* script, or playing once handleRun has set the program
    senseTrajectory,  \* the view trajectory
    senseStep, \* the view stepIndex
    runsScript,  \* runPython calls in flight: the script of each run
    runsStatus,  \* idle, running, suspended or resolved
    runsPc,  \* the statement each script is at
    runsHost,  \* primitives and currentPose of each call of runPython
    runsWorld,  \* the world each call was given
    runsReadings,  \* what get_front_distance() returned to each script
    skBuiltins, \* the run whose closures Sk.builtins holds, 0 for none
    appMounted,  \* App: whether the mount effect has run
    localStorage,  \* the two progress maps in window.localStorage
    savedProgress,  \* what the mount effect loaded
    savedTraining,
    currentMissionId,  \* App state
    isChallengeMode,
    activeStage,
    rewardSource,
    completedMissions,
    trainingProgress,
    lastRunSuccess,  \* null, true or false
    layoutPending,  \* the mounted layout has a run it has not reported
    credited  \* history: the (mission, mode) of the successful reports

trajVars == <<program, startPose, dt, samples>>
sensorVars == <<sensorPose, world, maxRange, reading>>
hostVars ==
    <<hostStart, hostWorld, primitives, currentPose, runState, calls, lastProbe>>
viewVars ==
    <<viewKind, viewMission, viewProgram, trajectory, stepIndex, isAnimating,
      hasReportedResult, reported>>
buildVars == <<commands, built, builtLegacy>>
callVars ==
    <<callProgram, callDt, callPc, callLoop, callState, callCount, callStatus>>
scanVars == <<scanPose, scanWorld, scanBeams, scanFov, scanRange, ranges>>
objVars == <<heap, currentPoseRef, primitiveRefs, objRun, objSamples>>
playVars ==
    <<playKind, playRunId, playOnResult, playLen, playSuccess, playStep,
      playAnimating, playReported, playLoops, playReports>>
starterVars ==
    <<starterWorld, starterPc, starterPrimitives, starterPose, starterD>>
senseVars ==
    <<senseMission, sensePrimitives, sensePose, senseReading, senseAt, senseStage, senseTrajectory, senseStep>>
runsVars ==
    <<runsScript, runsStatus, runsPc, runsHost, runsWorld, runsReadings, skBuiltins>>
appVars ==
    <<appMounted, localStorage, savedProgress, savedTraining, currentMissionId, isChallengeMode, activeStage, rewardSource, completedMissions, trainingProgress, lastRunSuccess, layoutPending, credited>>
vars ==
    <<trajVars, sensorVars, hostVars, viewVars, buildVars, callVars, scanVars, objVars, playVars, starterVars, senseVars, runsVars, appVars>>

\* the parts a specification does not use stay at these values
TrajIdle ==
    /\ program = <<>>
    /\ startPose = [x |-> <<0, 1>>, y |-> <<0, 1>>, theta |-> <<0, 1>>]
    /\ dt = <<1, 1>>
    /\ samples = <<>>

SensorIdle ==
    /\ sensorPose = [x |-> <<0, 1>>, y |-> <<0, 1>>, theta |-> <<0, 1>>]
    /\ world = <<>>
    /\ maxRange = <<0, 1>>
    /\ reading = <<0, 1>>

HostIdle ==
    /\ hostStart = [x |-> <<0, 1>>, y |-> <<0, 1>>, theta |-> <<0, 1>>]
    /\ hostWorld = <<>>
    /\ primitives = <<>>
    /\ currentPose = [x |-> <<0, 1>>, y |-> <<0, 1>>, theta |-> <<0, 1>>]
    /\ runState = "idle"
    /\ calls = <<>>
    /\ lastProbe = <<>>

ViewIdle ==
    /\ viewKind = "none"
    /\ viewMission = <<>>
    /\ viewProgram = <<>>
    /\ trajectory = <<>>
    /\ stepIndex = 0
    /\ isAnimating = FALSE
    /\ hasReportedResult = FALSE
    /\ reported = <<>>

BuildIdle ==
    /\ commands = <<>>
    /\ built = <<>>
    /\ builtLegacy = <<>>

CallIdle ==
    /\ callProgram = <<>>
    /\ callDt = <<0, 1>>
    /\ callPc = 0
    /\ callLoop = <<>>
    /\ callState = <<>>
    /\ callCount = 0
    /\ callStatus = "idle"

ScanIdle ==
    /\ scanPose = [x |-> <<0, 1>>, y |-> <<0, 1>>, theta |-> <<0, 1>>]
    /\ scanWorld = <<>>
    /\ scanBeams = 0
    /\ scanFov = <<0, 1>>
    /\ scanRange = <<0, 1>>
    /\ ranges = <<>>

ObjIdle ==
    /\ heap = <<>>
    /\ currentPoseRef = 0
    /\ primitiveRefs = <<>>
    /\ objRun = "idle"
    /\ objSamples = <<>>

PlayIdle ==
    /\ playKind = "none"
    /\ playRunId = 0
    /\ playOnResult = 0
    /\ playLen = 0
    /\ playSuccess = FALSE
    /\ playStep = 0
    /\ playAnimating = FALSE
    /\ playReported = FALSE
    /\ playLoops = 0
    /\ playReports = 0

StarterIdle ==
    /\ starterWorld = <<>>
    /\ starterPc = "idle"
    /\ starterPrimitives = <<>>
    /\ starterPose = <<>>
    /\ starterD = <<>>

SenseIdle ==
    /\ senseMission = <<>>
    /\ sensePrimitives = <<>>
    /\ sensePose = <<>>
    /\ senseReading = <<>>
    /\ senseAt = 0
    /\ senseStage = "idle"
    /\ senseTrajectory = <<>>
    /\ senseStep = 0

RunsIdle ==
    /\ runsScript = <<>>
    /\ runsStatus = <<>>
    /\ runsPc = <<>>
    /\ runsHost = <<>>
    /\ runsWorld = <<>>
    /\ runsReadings = <<>>
    /\ skBuiltins = 0

AppIdle ==
    /\ appMounted = FALSE
    /\ localStorage = <<>>
    /\ savedProgress = <<>>
    /\ savedTraining = <<>>
    /\ currentMissionId = ""
    /\ isChallengeMode = FALSE
    /\ activeStage = ""
    /\ rewardSource = ""
    /\ completedMissions = <<>>
    /\ trainingProgress = <<>>
    /\ lastRunSuccess = "null"
    /\ layoutPending = FALSE
    /\ credited = {}

notTrajVars ==
    <<sensorVars, hostVars, viewVars, buildVars, callVars, scanVars, objVars, playVars, starterVars, senseVars, runsVars, appVars>>
NotTrajIdle ==
    SensorIdle /\ HostIdle /\ ViewIdle /\ BuildIdle /\ CallIdle /\ ScanIdle /\ ObjIdle /\ PlayIdle /\ StarterIdle /\ SenseIdle /\ RunsIdle /\ AppIdle
notSensorVars ==
    <<trajVars, hostVars, viewVars, buildVars, callVars, scanVars, objVars, playVars, starterVars, senseVars, runsVars, appVars>>
NotSensorIdle ==
    TrajIdle /\ HostIdle /\ ViewIdle /\ BuildIdle /\ CallIdle /\ ScanIdle /\ ObjIdle /\ PlayIdle /\ StarterIdle /\ SenseIdle /\ RunsIdle /\ AppIdle
notHostVars ==
    <<trajVars, sensorVars, viewVars, buildVars, callVars, scanVars, objVars, playVars, starterVars, senseVars, runsVars, appVars>>
NotHostIdle ==
    TrajIdle /\ SensorIdle /\ ViewIdle /\ BuildIdle /\ CallIdle /\ ScanIdle /\ ObjIdle /\ PlayIdle /\ StarterIdle /\ SenseIdle /\ RunsIdle /\ AppIdle
notViewVars ==
    <<trajVars, sensorVars, hostVars, buildVars, callVars, scanVars, objVars, playVars, starterVars, senseVars, runsVars, appVars>>
NotViewIdle ==
    TrajIdle /\ SensorIdle /\ HostIdle /\ BuildIdle /\ CallIdle /\ ScanIdle /\ ObjIdle /\ PlayIdle /\ StarterIdle /\ SenseIdle /\ RunsIdle /\ AppIdle
notBuildVars ==
    <<trajVars, sensorVars, hostVars, viewVars, callVars, scanVars, objVars, playVars, starterVars, senseVars, runsVars, appVars>>
NotBuildIdle ==
    TrajIdle /\ SensorIdle /\ HostIdle /\ ViewIdle /\ CallIdle /\ ScanIdle /\ ObjIdle /\ PlayIdle /\ StarterIdle /\ SenseIdle /\ RunsIdle /\ AppIdle
notCallVars ==
    <<trajVars, sensorVars, hostVars, viewVars, buildVars, scanVars, objVars, playVars, starterVars, senseVars, runsVars, appVars>>
NotCallIdle ==
    TrajIdle /\ SensorIdle /\ HostIdle /\ ViewIdle /\ BuildIdle /\ ScanIdle /\ ObjIdle /\ PlayIdle /\ StarterIdle /\ SenseIdle /\ RunsIdle /\ AppIdle
notScanVars ==
    <<trajVars, sensorVars, hostVars, viewVars, buildVars, callVars, objVars, playVars, starterVars, senseVars, runsVars, appVars>>
NotScanIdle ==
    TrajIdle /\ SensorIdle /\ HostIdle /\ ViewIdle /\ BuildIdle /\ CallIdle /\ ObjIdle /\ PlayIdle /\ StarterIdle /\ SenseIdle /\ RunsIdle /\ AppIdle
notObjVars ==
    <<trajVars, sensorVars, hostVars, viewVars, buildVars, callVars, scanVars, playVars, starterVars, senseVars, runsVars, appVars>>
NotObjIdle ==
    TrajIdle /\ SensorIdle /\ HostIdle /\ ViewIdle /\ BuildIdle /\ CallIdle /\ ScanIdle /\ PlayIdle /\ StarterIdle /\ SenseIdle /\ RunsIdle /\ AppIdle
notPlayVars ==
    <<trajVars, sensorVars, hostVars, viewVars, buildVars, callVars, scanVars, objVars, starterVars, senseVars, runsVars, appVars>>
NotPlayIdle ==
    TrajIdle /\ SensorIdle /\ HostIdle /\ ViewIdle /\ BuildIdle /\ CallIdle /\ ScanIdle /\ ObjIdle /\ StarterIdle /\ SenseIdle /\ RunsIdle /\ AppIdle
notStarterVars ==
    <<trajVars, sensorVars, hostVars, viewVars, buildVars, callVars, scanVars, objVars, playVars, senseVars, runsVars, appVars>>
NotStarterIdle ==
    TrajIdle /\ SensorIdle /\ HostIdle /\ ViewIdle /\ BuildIdle /\ CallIdle /\ ScanIdle /\ ObjIdle /\ PlayIdle /\ SenseIdle /\ RunsIdle /\ AppIdle
notSenseVars ==
    <<trajVars, sensorVars, hostVars, viewVars, buildVars, callVars, scanVars, objVars, playVars, starterVars, runsVars, appVars>>
NotSenseIdle ==
    TrajIdle /\ SensorIdle /\ HostIdle /\ ViewIdle /\ BuildIdle /\ CallIdle /\ ScanIdle /\ ObjIdle /\ PlayIdle /\ StarterIdle /\ RunsIdle /\ AppIdle
notRunsVars ==
    <<trajVars, sensorVars, hostVars, viewVars, buildVars, callVars, scanVars, objVars, playVars, starterVars, senseVars, appVars>>
NotRunsIdle ==
    TrajIdle /\ SensorIdle /\ HostIdle /\ ViewIdle /\ BuildIdle /\ CallIdle /\ ScanIdle /\ ObjIdle /\ PlayIdle /\ StarterIdle /\ SenseIdle /\ AppIdle
notAppVars ==
    <<trajVars, sensorVars, hostVars, viewVars, buildVars, callVars, scanVars, objVars, playVars, starterVars, senseVars, runsVars>>
NotAppIdle ==
    TrajIdle /\ SensorIdle /\ HostIdle /\ ViewIdle /\ BuildIdle /\ CallIdle /\ ScanIdle /\ ObjIdle /\ PlayIdle /\ StarterIdle /\ SenseIdle /\ RunsIdle

----------------------------------------------------------------------------
(* Rational arithmetic *)

AbsInt(n) == IF n < 0 THEN -n ELSE n

RECURSIVE GCD(_, _)
GCD(a, b) == IF b = 0 THEN a ELSE GCD(b, a % b)

\* n/d in lowest terms with a positive denominator (d # 0)
Rat(n, d) ==
    LET s == IF d < 0 THEN -1 ELSE 1
        g == GCD(AbsInt(n), AbsInt(d))
    IN  <<(s * n) \div g, (s * d) \div g>>

Zero == <<0, 1>>
One == <<1, 1>>
Infinity == <<1, 0>>
NegInfinity == <<-1, 0>>

\* the operations cancel common factors before they multiply, which keeps
\* the intermediate integers small; each binds its operands (p for a, q for
\* b) so that an operand expression is evaluated once
Add(a, b) ==
    CHOOSE r \in
        { LET g == GCD(p[2], q[2])
          IN  Rat(p[1] * (q[2] \div g) + q[1] * (p[2] \div g),
                  (p[2] \div g) * q[2]) : p \in {a}, q \in {b} } : TRUE
Neg(a) == CHOOSE r \in { <<-p[1], p[2]>> : p \in {a} } : TRUE
Sub(a, b) == Add(a, Neg(b))
Mul(a, b) ==
    CHOOSE r \in
        { LET g1 == GCD(AbsInt(p[1]), q[2])
              g2 == GCD(AbsInt(q[1]), p[2])
          IN  Rat((p[1] \div g1) * (q[1] \div g2),
                  (p[2] \div g2) * (q[2] \div g1)) : p \in {a}, q \in {b} } : TRUE
Div(a, b) == CHOOSE r \in { Mul(p, Rat(q[2], q[1])) : p \in {a}, q \in {b} } : TRUE

\* a < b, also between a finite number and an infinity
Lt(a, b) ==
    \E p \in {a}, q \in {b} :
        IF p[2] = 0 \/ q[2] = 0 THEN
            IF p[2] = 0 /\ q[2] = 0 THEN p[1] < q[1]
            ELSE p[1] * q[2] < q[1] * p[2]
        ELSE LET g == GCD(p[2], q[2])
             IN  p[1] * (q[2] \div g) < q[1] * (p[2] \div g)
Le(a, b) == ~Lt(b, a)
Gt(a, b) == Lt(b, a)
Ge(a, b) == ~Lt(a, b)

\* Math.abs, Math.max, Math.min
MathAbs(a) == CHOOSE r \in { <<AbsInt(p[1]), p[2]>> : p \in {a} } : TRUE
MathMax(a, b) ==
    CHOOSE r \in { IF Lt(p, q) THEN q ELSE p : p \in {a}, q \in {b} } : TRUE
MathMin(a, b) ==
    CHOOSE r \in { IF Lt(q, p) THEN q ELSE p : p \in {a}, q \in {b} } : TRUE

\* Math.round: the nearest integer, a half rounding up (floor(a + 1/2))
MathRound(a) == (2 * a[1] + a[2]) \div (2 * a[2])

\* the largest r in lo..hi with r*r <= m (lo*lo <= m)
RECURSIVE ISqrtIn(_, _, _)
ISqrtIn(m, lo, hi) ==
    IF lo >= hi THEN lo
    ELSE LET mid == (lo + hi + 1) \div 2
         IN  IF mid * mid <= m THEN ISqrtIn(m, mid, hi)
             ELSE ISqrtIn(m, lo, mid - 1)

\* 46340 is the largest integer whose square is a 32-bit integer
ISqrt(m) == ISqrtIn(m, 0, IF m < 46340 THEN m ELSE 46340)

\* Math.sqrt of a >= 0: exact when a is the square of a rational, else
\* rounded down to two decimal places, or to an integer when the numerator
\* is too large to scale
MathSqrt(a) ==
    CHOOSE r \in
        { IF rn * rn = p[1] /\ rd * rd = p[2] THEN <<rn, rd>>
          ELSE IF p[1] <= 214748 THEN Rat(ISqrt((p[1] * 10000) \div p[2]), 100)
          ELSE Rat(ISqrt(p[1] \div p[2]), 1) :
              p \in {a}, rn \in {ISqrt(a[1])}, rd \in {ISqrt(a[2])} } : TRUE

----------------------------------------------------------------------------
(* Math.cos and Math.sin on angles held in units of PI.  The values at the *)
(* multiples of PI/2 are exact; at the odd multiples of PI/4 the           *)
(* irrational (sqrt(2)/2, sqrt(2)/2) is taken as the rational unit vector  *)
(* (3/5, 4/5), turned by quarter turns, so that cos^2 + sin^2 = 1          *)
(* holds there too; between two multiples of PI/4 the value is             *)
(* interpolated linearly.                                                  *)

CosTable ==
    <<One, <<3, 5>>, Zero, <<-4, 5>>, <<-1, 1>>, <<-3, 5>>, Zero,
      <<4, 5>>, One>>

\* q is 4 * (k mod 2), in [0, 8)
MathCos(k) ==
    CHOOSE r \in
        { LET i == q[1] \div q[2]
              f == Sub(q, <<i, 1>>)
          IN  Add(CosTable[i + 1], Mul(f, Sub(CosTable[i + 2], CosTable[i + 1]))) :
              q \in {Mul(<<k[1] % (2 * k[2]), k[2]>>, <<4, 1>>)} } : TRUE

MathSin(k) == MathCos(Sub(k, <<1, 2>>))

----------------------------------------------------------------------------
(* lib/trajectory.ts *)

Last(s) == s[Len(s)]

RECURSIVE driveStepsCosForSin(_, _, _, _, _)
driveStepsCosForSin(st, v, w, dtStep, i) ==
    IF i = 0 THEN <<>>
    ELSE LET nx == [t |-> Add(st.t, dtStep),
                    x |-> Add(st.x, Mul(Mul(v, MathCos(st.theta)), dtStep)),
                    y |-> Add(st.y, Mul(Mul(v, MathCos(st.theta)), dtStep)),
                    theta |-> Add(st.theta, Mul(w, dtStep))]
         IN  <<nx>> \o driveStepsCosForSin(nx, v, w, dtStep, i - 1)

RECURSIVE driveStepsFrozenClock(_, _, _, _, _)
driveStepsFrozenClock(st, v, w, dtStep, i) ==
    IF i = 0 THEN <<>>
    ELSE LET nx == [t |-> st.t,
                    x |-> Add(st.x, Mul(Mul(v, MathCos(st.theta)), dtStep)),
                    y |-> Add(st.y, Mul(Mul(v, MathSin(st.theta)), dtStep)),
                    theta |-> Add(st.theta, Mul(w, dtStep))]
         IN  <<nx>> \o driveStepsFrozenClock(nx, v, w, dtStep, i - 1)

RECURSIVE driveStepsTurnSlides(_, _, _, _, _)
driveStepsTurnSlides(st, v, w, dtStep, i) ==
    IF i = 0 THEN <<>>
    ELSE LET nx == [t |-> Add(st.t, dtStep),
                    x |-> Add(st.x, Mul(Mul(Add(v, w), MathCos(st.theta)), dtStep)),
                    y |-> Add(st.y, Mul(Mul(v, MathSin(st.theta)), dtStep)),
                    theta |-> Add(st.theta, Mul(w, dtStep))]
         IN  <<nx>> \o driveStepsTurnSlides(nx, v, w, dtStep, i - 1)

RECURSIVE driveStepsMoveVeers(_, _, _, _, _)
driveStepsMoveVeers(st, v, w, dtStep, i) ==
    IF i = 0 THEN <<>>
    ELSE LET nx == [t |-> Add(st.t, dtStep),
                    x |-> Add(st.x, Mul(Mul(v, MathCos(st.theta)), dtStep)),
                    y |-> Add(st.y, Mul(Mul(v, MathSin(st.theta)), dtStep)),
                    theta |-> Add(st.theta, Mul(Add(v, w), dtStep))]
         IN  <<nx>> \o driveStepsMoveVeers(nx, v, w, dtStep, i - 1)

\* the loop body of lines 37-42, run i times from the running state
\* st = [t, x, y, theta]; returns the samples pushed, the last of which is
\* the running state the loop leaves
RECURSIVE driveSteps(_, _, _, _, _)
driveSteps(st, v, w, dtStep, i) ==
    IF i = 0 THEN <<>>
    ELSE LET nx == [t |-> Add(st.t, dtStep),
                    x |-> Add(st.x, Mul(Mul(v, MathCos(st.theta)), dtStep)),
                    y |-> Add(st.y, Mul(Mul(v, MathSin(st.theta)), dtStep)),
                    theta |-> Add(st.theta, Mul(w, dtStep))]
         IN  <<nx>> \o driveSteps(nx, v, w, dtStep, i - 1)

\* steps = Math.max(1, Math.round(duration / dt))
stepsOf(duration, dtv) ==
    LET r == MathRound(Div(duration, dtv)) IN IF r < 1 THEN 1 ELSE r

dtStepNominal(duration, dtv) == dtv

\* dtStep = duration / steps
dtStepOf(duration, dtv) == Div(duration, <<stepsOf(duration, dtv), 1>>)

drivePrimitiveSkipsZeroOnly(st, p, dtv) ==
    IF p.duration = Zero THEN [st |-> st, pushed |-> <<>>]
    ELSE LET out == driveSteps(st, p.v, p.w, dtStepOf(p.duration, dtv),
                               stepsOf(p.duration, dtv))
         IN  [st |-> Last(out), pushed |-> out]

drivePrimitive(st, p, dtv) ==
    IF Le(p.duration, Zero) THEN [st |-> st, pushed |-> <<>>]
    ELSE LET out == driveSteps(st, p.v, p.w, dtStepOf(p.duration, dtv),
                               stepsOf(p.duration, dtv))
         IN  [st |-> Last(out), pushed |-> out]

setPoseNoStateUpdate(st, p) ==
    [st |-> st,
     pushed |-> <<[t |-> st.t, x |-> p.pose.x, y |-> p.pose.y,
                   theta |-> p.pose.theta]>>]

\* x, y, theta overwritten, t kept, one sample pushed
setPosePrimitive(st, p) ==
    LET nx == [t |-> st.t, x |-> p.pose.x, y |-> p.pose.y,
               theta |-> p.pose.theta]
    IN  [st |-> nx, pushed |-> <<nx>>]

\* one iteration of the for loop over the program
primitiveStep(st, p, dtv) ==
    IF p.type = "drive" THEN drivePrimitive(st, p, dtv)
    ELSE IF p.type = "set_pose" THEN setPosePrimitive(st, p)
    ELSE [st |-> st, pushed |-> <<>>]

\* the for loop: acc is the samples array so far, st the running state
RECURSIVE trajectoryLoop(_, _, _, _)
trajectoryLoop(acc, st, prog, dtv) ==
    IF prog = <<>> THEN acc
    ELSE LET r == primitiveStep(st, Head(prog), dtv)
         IN  trajectoryLoop(acc \o r.pushed, r.st, Tail(prog), dtv)

buildTrajectoryUnseeded(prog, start, dtv) ==
    trajectoryLoop(
        <<>>, [t |-> Zero, x |-> start.x, y |-> start.y, theta |-> start.theta],
        prog, dtv)

buildTrajectory(prog, start, dtv) ==
    LET st0 == [t |-> Zero, x |-> start.x, y |-> start.y, theta |-> start.theta]
    IN  trajectoryLoop(<<st0>>, st0, prog, dtv)

----------------------------------------------------------------------------
(* The integrator on its own: a caller extends a primitive list and builds *)
(* the trajectory of the extended list.                                    *)

Drive(v, w, duration) == [type |-> "drive", v |-> v, w |-> w, duration |-> duration]
SetPose(x, y, theta) ==
    [type |-> "set_pose", pose |-> [x |-> x, y |-> y, theta |-> theta]]

\* the canonical Mission 1 program
Canon1 == Drive(<<1, 4>>, Zero, <<13, 1>>)
Canon2 == Drive(Zero, <<1, 4>>, <<2, 1>>)
Canon3 == Drive(<<1, 4>>, Zero, <<7, 1>>)

TrajPrimitives ==
    { Canon1, Canon2, Canon3,
      Drive(<<-1, 4>>, Zero, <<1, 1>>),          \* reverse
      Drive(Zero, <<-1, 4>>, <<1, 1>>),          \* 45 degrees to the right
      Drive(<<1, 4>>, <<1, 4>>, <<2, 1>>),       \* an arc: v and w together
      Drive(<<1, 4>>, Zero, Zero),               \* zero duration
      Drive(Zero, <<1, 4>>, <<-1, 1>>),          \* negative duration
      SetPose(<<1, 1>>, <<2, 1>>, <<1, 2>>),
      SetPose(Zero, Zero, Zero) }

Origin == [x |-> Zero, y |-> Zero, theta |-> Zero]

TrajStarts == { Origin, [x |-> <<1, 2>>, y |-> <<-1, 1>>, theta |-> One] }

\* integration steps: one that divides every duration, one that divides
\* none, one longer than the short durations
TrajDts == { <<1, 1>>, <<3, 2>>, <<4, 1>> }

MaxProg == 3

InitTraj ==
    /\ program = <<>>
    /\ startPose \in TrajStarts
    /\ dt \in TrajDts
    /\ samples = buildTrajectory(<<>>, startPose, dt)
    /\ NotTrajIdle

Extend(p) ==
    /\ Len(program) < MaxProg
    /\ program' = Append(program, p)
    /\ samples' = buildTrajectory(program', startPose, dt)
    /\ UNCHANGED <<startPose, dt, notTrajVars>>

NextTraj == \E p \in TrajPrimitives : Extend(p)

SpecTraj == InitTraj /\ [][NextTraj]_vars

----------------------------------------------------------------------------
(* Claims about buildTrajectory, checked under SpecTraj *)

Sample0(start) ==
    [t |-> Zero, x |-> start.x, y |-> start.y, theta |-> start.theta]

PoseOf(smp) == [x |-> smp.x, y |-> smp.y, theta |-> smp.theta]

\* C1: the trajectory is never empty, its first sample is the start pose at
\* t = 0, and for the empty primitive list it is exactly that one sample.
C1_StartsAtStartPose ==
    /\ Len(samples) >= 1
    /\ samples[1] = Sample0(startPose)
    /\ (program = <<>> => samples = <<Sample0(startPose)>>)

C1_Witness ==
    /\ Len(program) = 2
    /\ Len(samples) > 3
    /\ PoseOf(Last(samples)) # startPose
    /\ samples[1] = Sample0(startPose)

RECURSIVE SumPositiveDurations(_)
SumPositiveDurations(prog) ==
    IF prog = <<>> THEN Zero
    ELSE Add(IF Gt(Head(prog).duration, Zero) THEN Head(prog).duration ELSE Zero,
             SumPositiveDurations(Tail(prog)))

AllDrive(prog) == \A i \in 1..Len(prog) : prog[i].type = "drive"

\* C2: a single drive of duration T > 0 appends max(1, round(T/dt)) samples,
\* each advancing t by T/steps, so the last t is T whatever dt is; for a
\* list of drives the final t is the sum of the positive durations.
C2_DurationFidelity ==
    /\ AllDrive(program) => Last(samples).t = SumPositiveDurations(program)
    /\ (Len(program) = 1 /\ AllDrive(program) /\ Gt(program[1].duration, Zero)) =>
          LET T == program[1].duration
              r == MathRound(Div(T, dt))
              steps == IF r < 1 THEN 1 ELSE r
          IN  /\ Len(samples) = 1 + steps
              /\ \A i \in 1..steps :
                    Sub(samples[i + 1].t, samples[i].t) = Div(T, <<steps, 1>>)
              /\ Last(samples).t = T

\* a single drive whose duration is no multiple of dt
C2_Witness ==
    /\ Len(program) = 1
    /\ program[1].type = "drive"
    /\ Gt(program[1].duration, Zero)
    /\ Mul(<<Len(samples) - 1, 1>>, dt) # program[1].duration
    /\ Last(samples).t = program[1].duration

\* C3: the canonical Mission 1 program from (0,0,0) passes (3.25, 0, 0) after
\* the first primitive, (3.25, 0, 90 degrees) after the second and ends at
\* (3.25, 1.75, 90 degrees = PI/2).
C3_CanonicalMission1 ==
    startPose = Origin =>
        /\ program = <<Canon1>> =>
              PoseOf(Last(samples)) = [x |-> <<13, 4>>, y |-> Zero, theta |-> Zero]
        /\ program = <<Canon1, Canon2>> =>
              PoseOf(Last(samples)) =
                  [x |-> <<13, 4>>, y |-> Zero, theta |-> Div(<<90, 1>>, <<180, 1>>)]
        /\ program = <<Canon1, Canon2, Canon3>> =>
              PoseOf(Last(samples)) =
                  [x |-> <<13, 4>>, y |-> <<7, 4>>, theta |-> <<1, 2>>]

C3_Witness ==
    /\ startPose = Origin
    /\ program = <<Canon1, Canon2, Canon3>>
    /\ Last(samples).x = <<13, 4>>
    /\ Last(samples).t = <<22, 1>>

\* the samples of s from index i on, each t moved by t0
ShiftFrom(s, i, t0) ==
    [j \in 1..(Len(s) - i + 1) |->
        [s[i + j - 1] EXCEPT !.t = Add(s[i + j - 1].t, t0)]]

\* C4: a set_pose at any position appends exactly one sample, with the
\* teleported pose and the t of the sample before it, and the primitives
\* after it are integrated from the teleported pose.
C4_TeleportDiscontinuity ==
    \A i \in 1..Len(program) :
        program[i].type = "set_pose" =>
            LET pre == buildTrajectory(SubSeq(program, 1, i - 1), startPose, dt)
                n == Len(pre)
                rest == buildTrajectory(SubSeq(program, i + 1, Len(program)),
                                        program[i].pose, dt)
            IN  /\ Len(samples) = n + Len(rest)
                /\ SubSeq(samples, 1, n) = pre
                /\ PoseOf(samples[n + 1]) = program[i].pose
                /\ samples[n + 1].t = samples[n].t
                /\ SubSeq(samples, n + 1, Len(samples)) = ShiftFrom(rest, 1, pre[n].t)

\* the list with its element i removed
Without(prog, i) == SubSeq(prog, 1, i - 1) \o SubSeq(prog, i + 1, Len(prog))

\* the drives of the program with duration <= 0
SkippedDrives ==
    { i \in 1..Len(program) :
        program[i].type = "drive" /\ Le(program[i].duration, Zero) }

\* C26: a drive with duration <= 0, at any position, appends no sample and
\* leaves t, x, y and theta as they are: the trajectory up to and including
\* it is the trajectory up to it, and the whole trajectory is the one built
\* from the list without it
C26_NonPositiveDurationSkipped ==
    \A i \in SkippedDrives :
        /\ buildTrajectory(SubSeq(program, 1, i), startPose, dt)
               = buildTrajectory(SubSeq(program, 1, i - 1), startPose, dt)
        /\ samples = buildTrajectory(Without(program, i), startPose, dt)

\* a drive of negative duration and non-zero turn rate between two drives
\* that move the robot
C26_Witness ==
    /\ Len(program) = 3
    /\ SkippedDrives = {2}
    /\ Lt(program[2].duration, Zero) /\ program[2].w # Zero
    /\ program[3].type = "drive" /\ program[3].v # Zero
    /\ Len(samples) > 2
    /\ PoseOf(Last(samples)) # startPose

\* a set_pose in the middle of the list, after a drive that moved time on
\* and before a drive that moves the pose on
C4_Witness ==
    /\ Len(program) = 3
    /\ program[2].type = "set_pose"
    /\ program[1].type = "drive" /\ Gt(program[1].duration, Zero)
    /\ program[3].type = "drive" /\ Gt(program[3].duration, Zero)
    /\ program[3].v # Zero
    /\ Gt(Last(samples).t, Zero)
    /\ PoseOf(Last(samples)) # program[2].pose
    /\ PoseOf(samples[Len(buildTrajectory(<<program[1]>>, startPose, dt)) + 1])
           = program[2].pose

\* the index in samples of the last sample before those of the k-th
\* primitive, and of the last sample of the k-th primitive
SegLo(k) == Len(buildTrajectory(SubSeq(program, 1, k - 1), startPose, dt))
SegHi(k) == Len(buildTrajectory(SubSeq(program, 1, k), startPose, dt))

\* the trajectory of the list without its last primitive
PrefixSamples ==
    buildTrajectory(SubSeq(program, 1, Len(program) - 1), startPose, dt)

\* the last primitive of the list and the samples it appended satisfy P:
\* samples is pre followed by the samples of the last primitive.  Every
\* primitive of a list is the last one of a shorter list in an earlier state.
LastSegment(P(_, _)) ==
    program # <<>> =>
        \A pre \in {PrefixSamples} :
            /\ SubSeq(samples, 1, Len(pre)) = pre
            /\ P(Last(program), Len(pre))

TimeAdvances(p, lo) ==
    IF p.type = "drive" THEN
        \A j \in (lo + 1)..Len(samples) : Gt(samples[j].t, samples[j - 1].t)
    ELSE /\ Len(samples) = lo + 1
         /\ samples[lo + 1].t = samples[lo].t

\* C14: t never decreases from one sample to the next, for every list
\* mixing drive and set_pose primitives and every dt > 0; t strictly
\* increases across every step of a drive and is unchanged across a
\* set_pose.
C14_TimeMonotone ==
    /\ \A i \in 1..(Len(samples) - 1) : Le(samples[i].t, samples[i + 1].t)
    /\ LastSegment(TimeAdvances)

\* a set_pose between two drives of several steps each
C14_Witness ==
    /\ Len(program) = 3
    /\ program[1].type = "drive"
    /\ program[2].type = "set_pose"
    /\ program[3].type = "drive"
    /\ SegHi(1) > SegLo(1) + 1
    /\ SegHi(3) > SegLo(3) + 1
    /\ Gt(samples[SegHi(3)].t, samples[SegLo(3)].t)
    /\ samples[SegHi(2)].t = samples[SegLo(2)].t

TurnsInPlace(p, lo) ==
    (p.type = "drive" /\ p.v = Zero) =>
        \A j \in (lo + 1)..Len(samples) :
            /\ samples[j].x = samples[lo].x
            /\ samples[j].y = samples[lo].y

\* C15: a drive primitive with v = 0 changes theta only: every sample it
\* appends has the x and y of the pose at which the primitive started.
C15_PureRotation == LastSegment(TurnsInPlace)

\* a turn of several steps, entered away from the start pose, that changed
\* the heading
C15_Witness ==
    /\ Len(program) = 2
    /\ program[2].type = "drive"
    /\ program[2].v = Zero
    /\ SegHi(2) > SegLo(2) + 1
    /\ samples[SegLo(2)].x # startPose.x
    /\ samples[SegHi(2)].theta # samples[SegLo(2)].theta
    /\ samples[SegHi(2)].x = samples[SegLo(2)].x

KeepsHeading(p, lo) ==
    (p.type = "drive" /\ p.w = Zero) =>
        \A j \in (lo + 1)..Len(samples) :
            /\ samples[j].theta = samples[lo].theta
            /\ (samples[lo].theta = Zero /\ Gt(p.v, Zero)) =>
                   /\ samples[j].y = samples[lo].y
                   /\ Gt(samples[j].x, samples[j - 1].x)

\* C16: a drive primitive with w = 0 leaves theta unchanged in every sample
\* it appends; entered at heading 0 with v > 0, it keeps y constant and x
\* strictly increases from sample to sample.
C16_PureTranslation == LastSegment(KeepsHeading)

\* a forward move of several steps entered at heading 0 after a teleport
C16_Witness ==
    /\ Len(program) = 2
    /\ program[1].type = "set_pose"
    /\ program[2].type = "drive"
    /\ program[2].w = Zero
    /\ Gt(program[2].v, Zero)
    /\ samples[SegLo(2)].theta = Zero
    /\ SegHi(2) > SegLo(2) + 1
    /\ Gt(samples[SegHi(2)].x, samples[SegLo(2)].x)
    /\ samples[SegHi(2)].y = samples[SegLo(2)].y

----------------------------------------------------------------------------
(* sim/sensors: computeFrontDistance and its helpers.  null is <<>>.       *)

Null == <<>>

Circle(x, y, radius) == [type |-> "circle", x |-> x, y |-> y, radius |-> radius]
Rectangle(x, y, width, height) ==
    [type |-> "rectangle", x |-> x, y |-> y, width |-> width, height |-> height]

rayDirOf(theta) == [x |-> MathCos(theta), y |-> MathSin(theta)]

intersectRayCircleFarRoot(origin, dir, circle) ==
    LET Lx == Sub(circle.x, origin.x)
        Ly == Sub(circle.y, origin.y)
        t_ca == Add(Mul(Lx, dir.x), Mul(Ly, dir.y))
        d2 == Sub(Add(Mul(Lx, Lx), Mul(Ly, Ly)), Mul(t_ca, t_ca))
        r2 == Mul(circle.radius, circle.radius)
    IN  IF Gt(d2, r2) THEN Null
        ELSE LET t1 == Add(t_ca, MathSqrt(Sub(r2, d2)))
             IN  IF Gt(t1, Zero) THEN t1 ELSE Null

intersectRayCircle(origin, dir, circle) ==
    LET Lx == Sub(circle.x, origin.x)
        Ly == Sub(circle.y, origin.y)
        t_ca == Add(Mul(Lx, dir.x), Mul(Ly, dir.y))
        d2 == Sub(Add(Mul(Lx, Lx), Mul(Ly, Ly)), Mul(t_ca, t_ca))
        r2 == Mul(circle.radius, circle.radius)
    IN  IF Gt(d2, r2) THEN Null
        ELSE LET thc == MathSqrt(Sub(r2, d2))
                 t0 == Sub(t_ca, thc)
                 t1 == Add(t_ca, thc)
             IN  IF Gt(t0, Zero) THEN t0
                 ELSE IF Gt(t1, Zero) THEN t1
                 ELSE Null

\* one slab of intersectRayRectangle: the interval [tMin, tMax] narrowed by
\* the slab [lo, hi] along one axis, or Null for "parallel and outside"
slab(iv, o, d, lo, hi) ==
    IF d # Zero THEN
        LET t1 == Div(Sub(lo, o), d)
            t2 == Div(Sub(hi, o), d)
        IN  [tMin |-> MathMax(iv.tMin, MathMin(t1, t2)),
             tMax |-> MathMin(iv.tMax, MathMax(t1, t2))]
    ELSE IF Lt(o, lo) \/ Gt(o, hi) THEN Null
    ELSE iv

intersectRayRectangleZeroInside(origin, dir, rect) ==
    LET two == <<2, 1>>
        minX == Sub(rect.x, Div(rect.width, two))
        maxX == Add(rect.x, Div(rect.width, two))
        minY == Sub(rect.y, Div(rect.height, two))
        maxY == Add(rect.y, Div(rect.height, two))
        ivX == slab([tMin |-> NegInfinity, tMax |-> Infinity],
                    origin.x, dir.x, minX, maxX)
    IN  IF ivX = Null THEN Null
        ELSE LET ivY == slab(ivX, origin.y, dir.y, minY, maxY)
             IN  IF ivY = Null THEN Null
                 ELSE IF Lt(ivY.tMax, ivY.tMin) THEN Null
                 ELSE IF Lt(ivY.tMax, Zero) THEN Null
                 ELSE IF Gt(ivY.tMin, Zero) THEN ivY.tMin
                 ELSE Zero

intersectRayRectangle(origin, dir, rect) ==
    LET two == <<2, 1>>
        minX == Sub(rect.x, Div(rect.width, two))
        maxX == Add(rect.x, Div(rect.width, two))
        minY == Sub(rect.y, Div(rect.height, two))
        maxY == Add(rect.y, Div(rect.height, two))
        ivX == slab([tMin |-> NegInfinity, tMax |-> Infinity],
                    origin.x, dir.x, minX, maxX)
    IN  IF ivX = Null THEN Null
        ELSE LET ivY == slab(ivX, origin.y, dir.y, minY, maxY)
             IN  IF ivY = Null THEN Null
                 ELSE IF Lt(ivY.tMax, ivY.tMin) THEN Null
                 ELSE IF Lt(ivY.tMax, Zero) THEN Null
                 ELSE IF Gt(ivY.tMin, Zero) THEN ivY.tMin
                 ELSE ivY.tMax

\* the dist computed for one obstacle in the loop
obstacleDist(origin, dir, obs) ==
    IF obs.type = "circle" THEN intersectRayCircle(origin, dir, obs)
    ELSE IF obs.type = "rectangle" THEN intersectRayRectangle(origin, dir, obs)
    ELSE Null

RECURSIVE minDistLoopLastHit(_, _, _, _)
minDistLoopLastHit(minDist, origin, dir, obstacles) ==
    IF obstacles = <<>> THEN minDist
    ELSE LET dist == obstacleDist(origin, dir, Head(obstacles))
         IN  minDistLoopLastHit(IF dist # Null THEN dist ELSE minDist,
                                origin, dir, Tail(obstacles))

\* the loop over world.obstacles from the running minimum minDist
RECURSIVE minDistLoop(_, _, _, _)
minDistLoop(minDist, origin, dir, obstacles) ==
    IF obstacles = <<>> THEN minDist
    ELSE LET dist == obstacleDist(origin, dir, Head(obstacles))
         IN  minDistLoop(IF dist # Null /\ Lt(dist, minDist) THEN dist ELSE minDist,
                         origin, dir, Tail(obstacles))

computeFrontDistanceUnclamped(pose, obstacles, range) ==
    minDistLoop(Infinity, [x |-> pose.x, y |-> pose.y], rayDirOf(pose.theta),
                obstacles)

computeFrontDistance(pose, obstacles, range) ==
    minDistLoop(range, [x |-> pose.x, y |-> pose.y], rayDirOf(pose.theta), obstacles)

\* maxRange: number = 5.0
DefaultMaxRange == 5

----------------------------------------------------------------------------
(* The sensor on its own: a caller adds obstacles to a world, moves the    *)
(* pose, and reads the front distance.                                     *)

SensorObstacles ==
    { Circle(<<3, 1>>, Zero, One),                \* the circle of test_sensors.ts
      Circle(<<3, 2>>, <<2, 1>>, <<1, 2>>),       \* on the PI/4 ray from the origin
      Circle(Zero, Zero, <<2, 1>>),               \* around the origin
      Circle(<<7, 1>>, Zero, One),                \* beyond the default range
      Circle(<<3, 1>>, <<1, 2>>, One),            \* off the axis: irrational root
      Rectangle(<<3, 1>>, Zero, <<1, 5>>, <<10, 1>>),   \* the Mission 2 wall
      Rectangle(Zero, <<2, 1>>, One, One) }

SensorPositions == { <<Zero, Zero>>, <<<<6, 1>>, Zero>>, <<<<3, 1>>, Zero>> }

SensorHeadings == { Zero, <<1, 4>>, <<1, 2>>, One, <<3, 2>> }

SensorPoses ==
    { [x |-> xy[1], y |-> xy[2], theta |-> h] :
        xy \in SensorPositions, h \in SensorHeadings }

SensorRanges == { <<DefaultMaxRange, 1>>, <<2, 1>>, Zero }

MaxObstacles == 2

InitSensor ==
    /\ sensorPose \in SensorPoses
    /\ world = <<>>
    /\ maxRange \in SensorRanges
    /\ reading = computeFrontDistance(sensorPose, world, maxRange)
    /\ NotSensorIdle

AddObstacle(o) ==
    /\ Len(world) < MaxObstacles
    /\ world' = Append(world, o)
    /\ reading' = computeFrontDistance(sensorPose, world', maxRange)
    /\ UNCHANGED <<sensorPose, maxRange, notSensorVars>>

Probe(p) ==
    /\ p # sensorPose
    /\ sensorPose' = p
    /\ reading' = computeFrontDistance(p, world, maxRange)
    /\ UNCHANGED <<world, maxRange, notSensorVars>>

NextSensor ==
    \/ \E o \in SensorObstacles : AddObstacle(o)
    \/ \E p \in SensorPoses : Probe(p)

SpecSensor == InitSensor /\ [][NextSensor]_vars

----------------------------------------------------------------------------
(* Claims about computeFrontDistance, checked under SpecSensor *)

\* the point of the ray of pose at parameter t
RayPoint(pose, t) ==
    [x |-> Add(pose.x, Mul(t, MathCos(pose.theta))),
     y |-> Add(pose.y, Mul(t, MathSin(pose.theta)))]

Dist2(p, q) ==
    Add(Mul(Sub(p.x, q.x), Sub(p.x, q.x)), Mul(Sub(p.y, q.y), Sub(p.y, q.y)))

\* p lies in the closed region of the obstacle
InsideOrOn(p, obs) ==
    IF obs.type = "circle" THEN Le(Dist2(p, obs), Mul(obs.radius, obs.radius))
    ELSE /\ Le(MathAbs(Sub(p.x, obs.x)), Div(obs.width, <<2, 1>>))
         /\ Le(MathAbs(Sub(p.y, obs.y)), Div(obs.height, <<2, 1>>))

\* p lies in the open region of the obstacle
StrictlyInside(p, obs) ==
    IF obs.type = "circle" THEN Lt(Dist2(p, obs), Mul(obs.radius, obs.radius))
    ELSE /\ Lt(MathAbs(Sub(p.x, obs.x)), Div(obs.width, <<2, 1>>))
         /\ Lt(MathAbs(Sub(p.y, obs.y)), Div(obs.height, <<2, 1>>))

\* p lies on the surface of the obstacle; on a circle within what the
\* resolution of the square root allows (the chord half-length thc <= radius
\* is rounded down by less than 1/100)
OnSurface(p, obs) ==
    IF obs.type = "circle" THEN
        LET e == Sub(Mul(obs.radius, obs.radius), Dist2(p, obs))
        IN  /\ Ge(e, Zero)
            /\ Le(Mul(e, <<100, 1>>), Mul(<<2, 1>>, obs.radius))
    ELSE InsideOrOn(p, obs) /\ ~StrictlyInside(p, obs)

\* distances at which the ray is sampled
RaySamples == { <<k, 4>> : k \in 0..(4 * DefaultMaxRange) }

\* C5: the reading d satisfies 0 <= d <= maxRange; it is maxRange when no
\* obstacle is hit at a distance below maxRange (no obstacle at all, or hits
\* only at or beyond maxRange); a reading below maxRange is the distance of
\* a point on an obstacle's surface, and no ray point before the reading is
\* inside an obstacle the origin is outside of.
C5_ReadingWithinRange ==
    LET origin == [x |-> sensorPose.x, y |-> sensorPose.y]
        dir == rayDirOf(sensorPose.theta)
    IN  /\ Le(Zero, reading) /\ Le(reading, maxRange)
        /\ (\A i \in 1..Len(world) :
               LET h == obstacleDist(origin, dir, world[i])
               IN  h = Null \/ Ge(h, maxRange)) => reading = maxRange
        /\ Lt(reading, maxRange) =>
               \E i \in 1..Len(world) : OnSurface(RayPoint(sensorPose, reading), world[i])
        /\ \A i \in 1..Len(world) : \A t \in RaySamples :
               (Lt(t, reading) /\ StrictlyInside(RayPoint(sensorPose, t), world[i]))
                   => InsideOrOn(origin, world[i])

\* an obstacle that the ray meets only beyond maxRange: the reading is maxRange
C5_Witness ==
    /\ world = <<Circle(<<7, 1>>, Zero, One)>>
    /\ sensorPose = Origin
    /\ maxRange = <<5, 1>>
    /\ obstacleDist([x |-> Zero, y |-> Zero], rayDirOf(Zero), world[1]) = <<6, 1>>
    /\ reading = <<5, 1>>

\* C6: a single circle of radius r with its centre straight ahead at
\* distance D > r, D - r < maxRange, reads D - r; with the robot facing
\* directly away from it the reading is exactly maxRange.  The tested case:
\* circle (3,0) radius 1 from the origin reads 2 at heading 0 and 5 = maxRange
\* at heading PI.
C6_StraightAhead ==
    (Len(world) = 1 /\ world[1].type = "circle") =>
        LET c == world[1]
            dir == rayDirOf(sensorPose.theta)
            Lx == Sub(c.x, sensorPose.x)
            Ly == Sub(c.y, sensorPose.y)
            D == Add(Mul(Lx, dir.x), Mul(Ly, dir.y))
            onAxis == Lx = Mul(D, dir.x) /\ Ly = Mul(D, dir.y)
        IN  /\ (onAxis /\ Gt(D, c.radius) /\ Lt(Sub(D, c.radius), maxRange))
                   => reading = Sub(D, c.radius)
            /\ (onAxis /\ Lt(D, Neg(c.radius))) => reading = maxRange
            /\ (c = Circle(<<3, 1>>, Zero, One) /\ maxRange = <<5, 1>>) =>
                   /\ sensorPose = Origin => reading = <<2, 1>>
                   /\ sensorPose = [Origin EXCEPT !.theta = One] => reading = <<5, 1>>

C6_Witness ==
    /\ world = <<Circle(<<3, 1>>, Zero, One)>>
    /\ sensorPose = Origin
    /\ maxRange = <<5, 1>>
    /\ reading = <<2, 1>>

\* the far root t_ca + thc of the ray of pose and a circle
FarRoot(pose, c) ==
    LET dir == rayDirOf(pose.theta)
        Lx == Sub(c.x, pose.x)
        Ly == Sub(c.y, pose.y)
        t_ca == Add(Mul(Lx, dir.x), Mul(Ly, dir.y))
        d2 == Sub(Add(Mul(Lx, Lx), Mul(Ly, Ly)), Mul(t_ca, t_ca))
    IN  Add(t_ca, MathSqrt(Sub(Mul(c.radius, c.radius), d2)))

\* the exit parameter tMax of the ray of pose and a rectangle that holds the
\* origin: the smaller of the two slabs' far ends
ExitParam(pose, r) ==
    LET dir == rayDirOf(pose.theta)
        half == [x |-> Div(r.width, <<2, 1>>), y |-> Div(r.height, <<2, 1>>)]
        far(o, d, c, h) ==
            IF d = Zero THEN Infinity
            ELSE MathMax(Div(Sub(Sub(c, h), o), d), Div(Sub(Add(c, h), o), d))
    IN  MathMin(far(pose.x, dir.x, r.x, half.x), far(pose.y, dir.y, r.y, half.y))

\* the obstacles of the world that hold the ray origin in their interior
Containing ==
    { i \in 1..Len(world) :
        StrictlyInside([x |-> sensorPose.x, y |-> sensorPose.y], world[i]) }

\* C19: for an obstacle with the ray origin in its interior the intersection
\* routine returns a hit, never null and never 0: the far root t_ca + thc
\* for a circle, the exit parameter tMax for a rectangle; the ray point at
\* that distance lies on the obstacle's surface, and the reading is never
\* beyond it (alone in the world, the reading is that distance cut at
\* maxRange)
C19_InsideReportsExit ==
    \A i \in Containing :
        \A d \in {obstacleDist([x |-> sensorPose.x, y |-> sensorPose.y],
                               rayDirOf(sensorPose.theta), world[i])} :
            /\ d # Null
            /\ Gt(d, Zero)
            /\ d = IF world[i].type = "circle" THEN FarRoot(sensorPose, world[i])
                   ELSE ExitParam(sensorPose, world[i])
            /\ OnSurface(RayPoint(sensorPose, d), world[i])
            /\ Le(reading, d)
            /\ Len(world) = 1 => reading = MathMin(maxRange, d)

\* heading PI/2 from the middle of the Mission 2 wall, inside the off-axis
\* circle as well: the ray leaves the circle after 3/2 and the wall after 5
C19_Witness ==
    /\ sensorPose = [x |-> <<3, 1>>, y |-> Zero, theta |-> <<1, 2>>]
    /\ world = <<Circle(<<3, 1>>, <<1, 2>>, One),
                 Rectangle(<<3, 1>>, Zero, <<1, 5>>, <<10, 1>>)>>
    /\ Containing = {1, 2}
    /\ maxRange = <<5, 1>>
    /\ reading = <<3, 2>>

\* the hit distances of the individual obstacles of the world
HitDistances ==
    { obstacleDist([x |-> sensorPose.x, y |-> sensorPose.y],
                   rayDirOf(sensorPose.theta), world[i]) : i \in 1..Len(world) }
        \ {Null}

\* the orderings of the obstacle list
Orderings ==
    { [k \in 1..Len(world) |-> world[f[k]]] :
        f \in { g \in [1..Len(world) -> 1..Len(world)] :
                  \A a, b \in 1..Len(world) : a # b => g[a] # g[b] } }

\* C20: the reading is the least element of maxRange and the obstacles' hit
\* distances; computeFrontDistance returns the same value for every ordering
\* of the obstacle list; with one more obstacle appended it returns a value
\* that is not larger
C20_MinimumOverObstacles ==
    /\ reading \in HitDistances \cup {maxRange}
    /\ \A h \in HitDistances \cup {maxRange} : Le(reading, h)
    /\ \A w \in Orderings :
           computeFrontDistance(sensorPose, w, maxRange) = reading
    /\ \A o \in SensorObstacles :
           Le(computeFrontDistance(sensorPose, Append(world, o), maxRange), reading)

\* the circle of test_sensors.ts hit at 2 and the Mission 2 wall behind it
\* hit at 29/10, the nearer one first in the list
C20_Witness ==
    /\ sensorPose = Origin
    /\ maxRange = <<5, 1>>
    /\ world = <<Circle(<<3, 1>>, Zero, One),
                 Rectangle(<<3, 1>>, Zero, <<1, 5>>, <<10, 1>>)>>
    /\ HitDistances = {<<2, 1>>, <<29, 10>>}
    /\ reading = <<2, 1>>

----------------------------------------------------------------------------
(* lib/pythonRunner.ts: runPython.  The script is a black box that calls   *)
(* the five builtins in any order and then ends or raises.  h is the pair  *)
(* of the closure's primitives array and currentPose.                      *)

\* Math.PI, in the unit angles are held in
PI == One

\* dt = 0.02
DefaultDt == <<1, 50>>

updatePoseNoTurn(pose, v, w, dtv) ==
    [pose EXCEPT !.x = Add(@, Mul(Mul(v, MathCos(pose.theta)), dtv)),
                 !.y = Add(@, Mul(Mul(v, MathSin(pose.theta)), dtv))]

updatePose(pose, v, w, dtv) ==
    IF w = Zero THEN
        [pose EXCEPT !.x = Add(@, Mul(Mul(v, MathCos(pose.theta)), dtv)),
                     !.y = Add(@, Mul(Mul(v, MathSin(pose.theta)), dtv))]
    ELSE [pose EXCEPT !.theta = Add(@, Mul(w, dtv))]

move_forward(h, dist) ==
    LET v == <<1, 4>>
        duration == MathAbs(Div(dist, v))
        speed == IF Ge(dist, Zero) THEN v ELSE Neg(v)
    IN  [primitives |-> Append(h.primitives, Drive(speed, Zero, duration)),
         currentPose |-> updatePose(h.currentPose, speed, Zero, duration)]

turn_left(h, angleDeg) ==
    LET wDeg == <<45, 1>>
        wRad == Div(Mul(wDeg, PI), <<180, 1>>)
        duration == MathAbs(Div(angleDeg, wDeg))
        w == IF Ge(angleDeg, Zero) THEN wRad ELSE Neg(wRad)
    IN  [primitives |-> Append(h.primitives, Drive(Zero, w, duration)),
         currentPose |-> updatePose(h.currentPose, Zero, w, duration)]

turn_rightUnsigned(h, angleDeg) ==
    LET wDeg == <<45, 1>>
        wRad == Div(Mul(wDeg, PI), <<180, 1>>)
        duration == MathAbs(Div(angleDeg, wDeg))
    IN  [primitives |-> Append(h.primitives, Drive(Zero, Neg(wRad), duration)),
         currentPose |-> updatePose(h.currentPose, Zero, Neg(wRad), duration)]

turn_right(h, angleDeg) ==
    LET wDeg == <<45, 1>>
        wRad == Div(Mul(wDeg, PI), <<180, 1>>)
        duration == MathAbs(Div(angleDeg, wDeg))
        w == IF Ge(angleDeg, Zero) THEN Neg(wRad) ELSE wRad
    IN  [primitives |-> Append(h.primitives, Drive(Zero, w, duration)),
         currentPose |-> updatePose(h.currentPose, Zero, w, duration)]

get_front_distance(h, obstacles) ==
    computeFrontDistance(h.currentPose, obstacles, <<DefaultMaxRange, 1>>)

set_poseNoPush(h, x, y, thetaDeg) ==
    [primitives |-> h.primitives,
     currentPose |-> [x |-> x, y |-> y,
                      theta |-> Div(Mul(thetaDeg, PI), <<180, 1>>)]]

set_pose(h, x, y, thetaDeg) ==
    LET theta == Div(Mul(thetaDeg, PI), <<180, 1>>)
        pose == [x |-> x, y |-> y, theta |-> theta]
    IN  [primitives |-> Append(h.primitives, [type |-> "set_pose", pose |-> pose]),
         currentPose |-> pose]

\* the Mission 2 wall
Wall == Rectangle(<<3, 1>>, Zero, <<1, 5>>, <<10, 1>>)

\* the (startPose, world) pairs runPython is run with
HostRuns ==
    { <<Origin, <<Wall>>>>,
      <<[x |-> <<1, 2>>, y |-> <<-1, 1>>, theta |-> One],
        <<Circle(<<-3, 1>>, <<-1, 1>>, One)>>>> }

\* the arguments the script passes
MoveArgs == { Zero, <<1, 10>>, <<-1, 20>> }
TurnLeftArgs == { Zero, <<45, 1>> }
TurnRightArgs == { <<45, 1>>, <<-9, 1>> }
SetPoseArgs == { <<One, <<2, 1>>, <<90, 1>>>> }

MaxCalls == 3

InitHost ==
    /\ \E r \in HostRuns : hostStart = r[1] /\ hostWorld = r[2]
    /\ primitives = <<>>
    /\ currentPose = hostStart
    /\ runState = "running"
    /\ calls = <<>>
    /\ lastProbe = <<>>
    /\ NotHostIdle

Host == [primitives |-> primitives, currentPose |-> currentPose]

ScriptCalls(op, args, h) ==
    /\ runState = "running"
    /\ Len(calls) < MaxCalls
    /\ calls' = Append(calls, [op |-> op, args |-> args])
    /\ primitives' = h.primitives
    /\ currentPose' = h.currentPose
    /\ UNCHANGED <<hostStart, hostWorld, runState, notHostVars>>

CallMoveForward(d) ==
    /\ ScriptCalls("move_forward", <<d>>, move_forward(Host, d))
    /\ UNCHANGED lastProbe

CallTurnLeft(a) ==
    /\ ScriptCalls("turn_left", <<a>>, turn_left(Host, a))
    /\ UNCHANGED lastProbe

CallTurnRight(a) ==
    /\ ScriptCalls("turn_right", <<a>>, turn_right(Host, a))
    /\ UNCHANGED lastProbe

CallSetPose(x, y, t) ==
    /\ ScriptCalls("set_pose", <<x, y, t>>, set_pose(Host, x, y, t))
    /\ UNCHANGED lastProbe

CallGetFrontDistance ==
    /\ ScriptCalls("get_front_distance", <<>>, Host)
    /\ lastProbe' = [pose |-> currentPose, primitives |-> primitives,
                     dist |-> get_front_distance(Host, hostWorld)]

\* the script ran to its end: resolve(primitives)
Resolve ==
    /\ runState = "running"
    /\ runState' = "resolved"
    /\ UNCHANGED <<hostStart, hostWorld, primitives, currentPose, calls,
                   lastProbe, notHostVars>>

\* the script raised: reject(err.toString())
Reject ==
    /\ runState = "running"
    /\ runState' = "rejected"
    /\ UNCHANGED <<hostStart, hostWorld, primitives, currentPose, calls,
                   lastProbe, notHostVars>>

NextHost ==
    \/ \E d \in MoveArgs : CallMoveForward(d)
    \/ \E a \in TurnLeftArgs : CallTurnLeft(a)
    \/ \E a \in TurnRightArgs : CallTurnRight(a)
    \/ \E a \in SetPoseArgs : CallSetPose(a[1], a[2], a[3])
    \/ CallGetFrontDistance
    \/ Resolve
    \/ Reject

SpecHost == InitHost /\ [][NextHost]_vars

----------------------------------------------------------------------------
(* Claims about runPython, checked under SpecHost.                         *)

\* C8: at every get_front_distance() call, the pose handed to
\* computeFrontDistance is the final pose of the trajectory buildTrajectory
\* builds from the primitives accumulated so far and the same start pose
\* (up to floating-point rounding in the code).
C8_ProbePoseIsTrajectoryEnd ==
    lastProbe # <<>> =>
        lastProbe.pose =
            PoseOf(Last(buildTrajectory(lastProbe.primitives, hostStart,
                                        DefaultDt)))

\* a probe after the script both turned and moved
C8_Witness ==
    /\ lastProbe # <<>>
    /\ Len(lastProbe.primitives) >= 2
    /\ lastProbe.pose.theta # hostStart.theta
    /\ lastProbe.pose.x # hostStart.x
    /\ lastProbe.pose.y # hostStart.y

IsMotionCall(c) == c.op # "get_front_distance"
MotionCalls == SelectSeq(calls, IsMotionCall)

\* the primitive p is the one the call c asks for
PrimitiveOfCall(c, p) ==
    CASE c.op = "move_forward" ->
            /\ p.type = "drive" /\ p.w = Zero
            /\ Mul(p.v, p.duration) = c.args[1]
      [] c.op = "turn_left" ->
            /\ p.type = "drive" /\ p.v = Zero
            /\ Mul(p.w, p.duration) = Div(c.args[1], <<180, 1>>)
      [] c.op = "turn_right" ->
            /\ p.type = "drive" /\ p.v = Zero
            /\ Mul(p.w, p.duration) = Neg(Div(c.args[1], <<180, 1>>))
      [] c.op = "set_pose" ->
            /\ p.type = "set_pose"
            /\ p.pose = [x |-> c.args[1], y |-> c.args[2],
                         theta |-> Div(c.args[3], <<180, 1>>)]
      [] OTHER -> FALSE

\* C9: when runPython resolves, the primitive list holds exactly one
\* primitive for every move_forward, turn_left, turn_right and set_pose call
\* the script made, in call order; get_front_distance calls add none.
C9_OnePrimitivePerMotionCall ==
    runState = "resolved" =>
        /\ Len(primitives) = Len(MotionCalls)
        /\ \A i \in 1..Len(MotionCalls) :
               PrimitiveOfCall(MotionCalls[i], primitives[i])

\* a resolved run that sensed between a teleport and a motion
C9_Witness ==
    /\ runState = "resolved"
    /\ Len(calls) = 3
    /\ Len(primitives) = 2
    /\ calls[2].op = "get_front_distance"
    /\ \E i \in 1..Len(calls) : calls[i].op = "set_pose"

IsZeroCommand(c) ==
    /\ c.op \in {"move_forward", "turn_left", "turn_right"}
    /\ c.args[1] = Zero
IsEffectiveCall(c) == IsMotionCall(c) /\ ~IsZeroCommand(c)

\* C10: move_forward(0), turn_left(0) and turn_right(0) each yield zero
\* primitives: the list holds primitives only for the other motion calls,
\* and no drive primitive in it has duration zero.
C10_ZeroCommandsDropped ==
    /\ Len(primitives) = Len(SelectSeq(calls, IsEffectiveCall))
    /\ \A i \in 1..Len(primitives) :
           primitives[i].type = "drive" => primitives[i].duration # Zero

----------------------------------------------------------------------------
(* The mission views: Mission1Layout, Mission2Layout and SimulatorView.    *)
(* Each has an effect that rebuilds the trajectory when program or runId   *)
(* changes, and an animation frame that advances stepIndex and reports the *)
(* result once the last sample is reached.                                 *)

\* px per meter, and the world height in px
SCALE == <<80, 1>>
WORLD_HEIGHT_PX == <<400, 1>>

toMeters(x, y) == [x |-> Div(x, SCALE), y |-> Div(Sub(WORLD_HEIGHT_PX, y), SCALE)]

\* MISSIONS[0].world and MISSIONS[1].world
Mission1World ==
    [start |-> [x |-> <<80, 1>>, y |-> <<260, 1>>, theta |-> Zero],
     goal |-> [x |-> <<340, 1>>, y |-> <<120, 1>>, r |-> <<35, 1>>],
     crater |-> [x |-> <<260, 1>>, y |-> <<228, 1>>,
                 rx |-> <<60, 1>>, ry |-> <<22, 1>>],
     obstacles |-> <<>>]
Mission2World ==
    [start |-> [x |-> Zero, y |-> Zero, theta |-> Zero],
     goal |-> [x |-> <<5, 2>>, y |-> Zero, r |-> <<1, 2>>],
     obstacles |-> <<Wall>>]

\* the rotation by the start heading and the translation to the start
rotateTranslate(traj, sx, sy, sth) ==
    [i \in 1..Len(traj) |->
        [t |-> traj[i].t,
         x |-> Add(sx, Sub(Mul(traj[i].x, MathCos(sth)),
                           Mul(traj[i].y, MathSin(sth)))),
         y |-> Add(sy, Add(Mul(traj[i].x, MathSin(sth)),
                           Mul(traj[i].y, MathCos(sth)))),
         theta |-> Add(sth, traj[i].theta)]]

Mission1GoalMeters(w) ==
    [x |-> toMeters(w.goal.x, w.goal.y).x,
     y |-> toMeters(w.goal.x, w.goal.y).y,
     r |-> Div(w.goal.r, SCALE)]

Mission1StartMeters(w) == toMeters(w.start.x, w.start.y)

Mission1Trajectory(prog, w) ==
    rotateTranslate(buildTrajectory(prog, Origin, DefaultDt),
                    Mission1StartMeters(w).x, Mission1StartMeters(w).y,
                    w.start.theta)

Mission2Trajectory(prog, w) ==
    rotateTranslate(buildTrajectory(prog, Origin, DefaultDt),
                    w.start.x, w.start.y, w.start.theta)

\* canvas pixels relative to the start, y inverted, no rotation
toCanvas(traj, start) ==
    [i \in 1..Len(traj) |->
        [t |-> traj[i].t,
         x |-> Add(start.x, Mul(traj[i].x, SCALE)),
         y |-> Sub(start.y, Mul(traj[i].y, SCALE)),
         theta |-> Add(start.theta, traj[i].theta)]]

SimulatorTrajectory(prog, w) ==
    toCanvas(buildTrajectory(prog, Origin, DefaultDt), w.start)

goalDist(finalPose, goal) ==
    LET dx == Sub(finalPose.x, goal.x)
        dy == Sub(finalPose.y, goal.y)
    IN  MathSqrt(Add(Mul(dx, dx), Mul(dy, dy)))

Mission1SuccessStrict(finalPose, w) ==
    Lt(goalDist(finalPose, Mission1GoalMeters(w)), Mission1GoalMeters(w).r)

\* success = dist <= goalMeters.r
Mission1Success(finalPose, w) ==
    Le(goalDist(finalPose, Mission1GoalMeters(w)), Mission1GoalMeters(w).r)

\* dist >= 0.3 && dist <= 0.8
inStopBand(dist) == Ge(dist, <<3, 10>>) /\ Le(dist, <<8, 10>>)

\* success = dist >= 0.3 && dist <= 0.8, dist the front sensor's reading
Mission2Success(finalPose, w) ==
    inStopBand(computeFrontDistance(finalPose, w.obstacles,
                                    <<DefaultMaxRange, 1>>))

\* success = dist <= goal.r
SimulatorSuccess(finalPose, w) == Le(goalDist(finalPose, w.goal), w.goal.r)

pathOf(traj) == [i \in 1..Len(traj) |-> [x |-> traj[i].x, y |-> traj[i].y]]

\* onResult(success, path); final is the sample the flag was computed from
onResult(success, traj) ==
    reported' = [success |-> success, path |-> pathOf(traj), final |-> Last(traj)]

\* the primitive lists the views are handed; poses are relative to the
\* start, in meters
ViewPrograms ==
    { <<>>,
      <<SetPose(<<13, 4>>, <<7, 4>>, <<1, 2>>)>>,         \* on the Mission 1 beacon
      <<SetPose(<<45, 16>>, <<7, 4>>, Zero)>>,            \* 35 px short of it
      <<SetPose(<<45, 16>>, <<7, 4>>, Zero),
        Drive(<<-1, 4>>, Zero, <<1, 25>>)>>,              \* and 1 cm back
      <<SetPose(<<239, 80>>, <<7, 5>>, Zero)>>,           \* 21 px and 28 px off
      <<SetPose(<<13, 4>>, <<7, 4>>, <<1, 2>>),
        SetPose(Zero, Zero, Zero)>>,                      \* through it, and back
      <<SetPose(<<5, 2>>, Zero, Zero)>>,                  \* 0.4 m from the wall
      <<SetPose(<<2, 1>>, Zero, Zero),
        Drive(<<1, 4>>, Zero, <<1, 5>>)>>,                \* 0.85 m from the wall
      <<SetPose(<<23, 10>>, <<3, 1>>, Zero)>>,            \* 0.6 m, 3 m to the side
      <<Drive(<<1, 4>>, Zero, <<1, 25>>),
        Drive(Zero, <<1, 4>>, <<1, 25>>)>> }

\* the view mounted, with the mission it shows
ViewMounts ==
    { <<"Mission1Layout", Mission1World>>,
      <<"Mission2Layout", Mission2World>>,
      <<"SimulatorView", Mission1World>> }

viewTrajectory(kind, prog, w) ==
    CASE kind = "Mission1Layout" -> Mission1Trajectory(prog, w)
      [] kind = "Mission2Layout" -> Mission2Trajectory(prog, w)
      [] kind = "SimulatorView" -> SimulatorTrajectory(prog, w)

\* the state a run starts from: setTrajectory, setStepIndex(0),
\* setIsAnimating(true), hasReportedResult = false
runStarts(kind, prog) ==
    /\ viewProgram' = prog
    /\ trajectory' = viewTrajectory(kind, prog, viewMission)
    /\ stepIndex' = 0
    /\ isAnimating' = TRUE
    /\ hasReportedResult' = FALSE
    /\ UNCHANGED <<viewKind, viewMission, reported, notViewVars>>

\* the view is mounted with the empty program and its effect has run
InitView ==
    /\ \E m \in ViewMounts : viewKind = m[1] /\ viewMission = m[2]
    /\ viewProgram = <<>>
    /\ trajectory = viewTrajectory(viewKind, <<>>, viewMission)
    /\ stepIndex = 0
    /\ isAnimating = TRUE
    /\ hasReportedResult = FALSE
    /\ reported = <<>>
    /\ NotViewIdle

Mission1Effect(prog) ==
    /\ viewKind = "Mission1Layout"
    /\ runStarts("Mission1Layout", prog)

Mission2Effect(prog) ==
    /\ viewKind = "Mission2Layout"
    /\ runStarts("Mission2Layout", prog)

SimulatorEffect(prog) ==
    /\ viewKind = "SimulatorView"
    /\ runStarts("SimulatorView", prog)

\* the frame of the two layouts: success is the layout's flag for the final
\* sample
layoutFrame(success) ==
    /\ isAnimating
    /\ IF stepIndex + 1 >= Len(trajectory) THEN
           /\ isAnimating' = FALSE
           /\ IF ~hasReportedResult THEN
                  /\ hasReportedResult' = TRUE
                  /\ onResult(success, trajectory)
              ELSE UNCHANGED <<hasReportedResult, reported>>
           /\ stepIndex' = Len(trajectory) - 1
       ELSE /\ stepIndex' = stepIndex + 1
            /\ UNCHANGED <<isAnimating, hasReportedResult, reported>>
    /\ UNCHANGED <<viewKind, viewMission, viewProgram, trajectory, notViewVars>>

Mission1Animate ==
    /\ viewKind = "Mission1Layout"
    /\ layoutFrame(Mission1Success(Last(trajectory), viewMission))

Mission2Animate ==
    /\ viewKind = "Mission2Layout"
    /\ layoutFrame(Mission2Success(Last(trajectory), viewMission))

\* the canvas frame: after a success the loop goes on for the pulse, after
\* a failure it stops
SimulatorAnimate ==
    /\ viewKind = "SimulatorView"
    /\ isAnimating
    /\ LET success == SimulatorSuccess(Last(trajectory), viewMission)
       IN  IF stepIndex >= Len(trajectory) - 1 THEN
               /\ IF ~hasReportedResult THEN
                      /\ hasReportedResult' = TRUE
                      /\ onResult(success, trajectory)
                  ELSE UNCHANGED <<hasReportedResult, reported>>
               /\ isAnimating' = success
               /\ UNCHANGED stepIndex
           ELSE /\ stepIndex' = stepIndex + 1
                /\ UNCHANGED <<isAnimating, hasReportedResult, reported>>
    /\ UNCHANGED <<viewKind, viewMission, viewProgram, trajectory, notViewVars>>

NextView ==
    \/ \E prog \in ViewPrograms : Mission1Effect(prog)
    \/ \E prog \in ViewPrograms : Mission2Effect(prog)
    \/ \E prog \in ViewPrograms : SimulatorEffect(prog)
    \/ Mission1Animate
    \/ Mission2Animate
    \/ SimulatorAnimate

SpecView == InitView /\ [][NextView]_vars

----------------------------------------------------------------------------
(* Claims about the mission views, checked under SpecView.                 *)

\* the view's goal, in the frame of its trajectory
ViewGoal ==
    IF viewKind = "Mission1Layout" THEN Mission1GoalMeters(viewMission)
    ELSE viewMission.goal

\* the final sample lies within the goal circle, its rim included
WithinGoal(final, goal) == Le(Dist2(final, goal), Mul(goal.r, goal.r))

\* C7 as stated: in every mission view the success flag passed to onResult
\* is true exactly when the final sample is within goal.r of the goal centre.
C7_SuccessIffWithinGoal ==
    reported # <<>> =>
        (reported.success <=> WithinGoal(Last(reported.path), ViewGoal))

\* C7, amended: Mission1Layout and SimulatorView pass success exactly when
\* the final sample is within goal.r of the goal centre (distance exactly r
\* is a success); Mission2Layout passes success exactly when the front
\* sensor's reading at the final sample is between 0.3 and 0.8; in each view
\* the flag depends on the final sample only.
C7_SuccessByView ==
    reported # <<>> =>
        /\ reported.final.x = Last(reported.path).x
        /\ reported.final.y = Last(reported.path).y
        /\ IF viewKind = "Mission2Layout" THEN
               LET d == computeFrontDistance(reported.final,
                                             viewMission.obstacles,
                                             <<DefaultMaxRange, 1>>)
               IN  reported.success <=> (Le(<<3, 10>>, d) /\ Le(d, <<8, 10>>))
           ELSE reported.success <=>
                    WithinGoal(Last(reported.path), ViewGoal)

\* Mission1Layout reported a success for a final sample on the goal's rim,
\* off both axes
C7_Witness ==
    /\ viewKind = "Mission1Layout"
    /\ reported # <<>>
    /\ reported.success
    /\ Dist2(Last(reported.path), ViewGoal) = Mul(ViewGoal.r, ViewGoal.r)
    /\ Last(reported.path).x # ViewGoal.x
    /\ Last(reported.path).y # ViewGoal.y

----------------------------------------------------------------------------
(* lib/programBuilder.ts: buildProgram, in its drive-primitive version and *)
(* in the earlier move/turn version.                                       *)

Command(op, arg) == [op |-> op, arg |-> arg]

defaultSpeed == <<1, 4>>
defaultTurnSpeedDeg == <<45, 1>>
defaultTurnSpeedRad == Div(Mul(defaultTurnSpeedDeg, PI), <<180, 1>>)

commandPrimitivesNoReverse(cmd) ==
    IF cmd.op = "move_forward" THEN
        IF cmd.arg = Zero THEN <<>>
        ELSE <<Drive(defaultSpeed, Zero, MathAbs(Div(cmd.arg, defaultSpeed)))>>
    ELSE <<>>

\* one iteration of the loop over the commands: the primitives it pushes
commandPrimitives(cmd) ==
    IF cmd.op = "move_forward" THEN
        IF cmd.arg = Zero THEN <<>>
        ELSE <<Drive(IF Ge(cmd.arg, Zero) THEN defaultSpeed ELSE Neg(defaultSpeed),
                     Zero, MathAbs(Div(cmd.arg, defaultSpeed)))>>
    ELSE IF cmd.op = "turn_left" THEN
        IF cmd.arg = Zero THEN <<>>
        ELSE <<Drive(Zero,
                     IF Ge(cmd.arg, Zero) THEN defaultTurnSpeedRad
                     ELSE Neg(defaultTurnSpeedRad),
                     MathAbs(Div(cmd.arg, defaultTurnSpeedDeg)))>>
    ELSE IF cmd.op = "turn_right" THEN
        IF cmd.arg = Zero THEN <<>>
        ELSE <<Drive(Zero,
                     IF Ge(cmd.arg, Zero) THEN Neg(defaultTurnSpeedRad)
                     ELSE defaultTurnSpeedRad,
                     MathAbs(Div(cmd.arg, defaultTurnSpeedDeg)))>>
    ELSE <<>>

RECURSIVE buildLoopNewestFirst(_, _)
buildLoopNewestFirst(acc, cmds) ==
    IF cmds = <<>> THEN acc
    ELSE buildLoopNewestFirst(commandPrimitives(Head(cmds)) \o acc, Tail(cmds))

\* the for loop: acc is the primitives array so far
RECURSIVE buildLoop(_, _)
buildLoop(acc, cmds) ==
    IF cmds = <<>> THEN acc
    ELSE buildLoop(acc \o commandPrimitives(Head(cmds)), Tail(cmds))

buildProgram(cmds) == buildLoop(<<>>, cmds)

\* the earlier version: move and turn primitives, nothing dropped
legacyPrimitives(cmd) ==
    IF cmd.op = "move_forward" THEN
        <<[type |-> "move", distance |-> cmd.arg, speed |-> defaultSpeed]>>
    ELSE IF cmd.op = "turn_left" THEN
        <<[type |-> "turn", angleDeg |-> cmd.arg,
           angularSpeed |-> defaultTurnSpeedDeg]>>
    ELSE IF cmd.op = "turn_right" THEN
        <<[type |-> "turn", angleDeg |-> Neg(cmd.arg),
           angularSpeed |-> defaultTurnSpeedDeg]>>
    ELSE <<>>

RECURSIVE legacyLoop(_, _)
legacyLoop(acc, cmds) ==
    IF cmds = <<>> THEN acc
    ELSE legacyLoop(acc \o legacyPrimitives(Head(cmds)), Tail(cmds))

buildProgramLegacy(cmds) == legacyLoop(<<>>, cmds)

\* the commands a caller passes; "beep" is an op buildProgram does not know
BuildCommands ==
    { Command(op, arg) :
          op \in {"move_forward", "turn_left", "turn_right"},
          arg \in {Zero, <<1, 10>>, <<9, 1>>, <<-9, 1>>} }
    \cup { Command("beep", One) }

MaxCommands == 3

InitBuild ==
    /\ commands = <<>>
    /\ built = buildProgram(<<>>)
    /\ builtLegacy = buildProgramLegacy(<<>>)
    /\ NotBuildIdle

\* a caller builds the program of a command list one command longer
BuildNext(cmd) ==
    /\ Len(commands) < MaxCommands
    /\ commands' = Append(commands, cmd)
    /\ built' = buildProgram(commands')
    /\ builtLegacy' = buildProgramLegacy(commands')
    /\ UNCHANGED notBuildVars

NextBuild == \E cmd \in BuildCommands : BuildNext(cmd)

SpecBuild == InitBuild /\ [][NextBuild]_vars

----------------------------------------------------------------------------
(* Claims about buildProgram and the command builtins, checked under       *)
(* SpecBuild.                                                              *)

\* the commands up to the i-th for which the builder b returns a primitive
Yielding(b(_), i) == { j \in 1..i : b(<<commands[j]>>) # <<>> }

\* out is the concatenation, in input order, of what the builder b returns
\* for each command on its own, and each of those is zero or one primitive
ConcatOfSingles(b(_), out) ==
    /\ \A i \in 1..Len(commands) : Len(b(<<commands[i]>>)) <= 1
    /\ Len(out) = Cardinality(Yielding(b, Len(commands)))
    /\ \A i \in Yielding(b, Len(commands)) :
           out[Cardinality(Yielding(b, i))] = b(<<commands[i]>>)[1]

\* C11: buildProgram maps each command on its own to zero or one primitive
\* and keeps the order: the output is the concatenation of the per-command
\* results, and a command with an unrecognised op yields none.
C11_PerCommandInOrder ==
    /\ ConcatOfSingles(buildProgram, built)
    /\ ConcatOfSingles(buildProgramLegacy, builtLegacy)
    /\ \A i \in 1..Len(commands) :
           commands[i].op \notin {"move_forward", "turn_left", "turn_right"} =>
               /\ buildProgram(<<commands[i]>>) = <<>>
               /\ buildProgramLegacy(<<commands[i]>>) = <<>>

\* three commands, the middle one yielding nothing, the outer two different
C11_Witness ==
    /\ Len(commands) = 3
    /\ commands[2].op = "beep"
    /\ Len(built) = 2
    /\ built[1] # built[2]
    /\ Len(builtLegacy) = 2

\* runPython's closure before the script's first call, started at the origin
HostAtOrigin == [primitives |-> <<>>, currentPose |-> Origin]

\* p drives the distance d along the heading at 0.25 m/s
IsMoveOf(p, d) ==
    /\ p.type = "drive"
    /\ p.w = Zero
    /\ Gt(p.duration, Zero)
    /\ Mul(p.duration, <<1, 4>>) = MathAbs(d)
    /\ Gt(d, Zero) => p.v = <<1, 4>>
    /\ Lt(d, Zero) => p.v = <<-1, 4>>
    /\ Mul(p.v, p.duration) = d

\* C12: for every d # 0, move_forward(d) yields one drive primitive with
\* w = 0, duration |d| / 0.25 and v = +0.25 for d > 0, -0.25 for d < 0, so
\* that v * duration = d; in buildProgram and in runPython alike.
C12_MoveForwardPrimitive ==
    \A i \in 1..Len(commands) :
        (commands[i].op = "move_forward" /\ commands[i].arg # Zero) =>
            /\ Len(buildProgram(<<commands[i]>>)) = 1
            /\ IsMoveOf(buildProgram(<<commands[i]>>)[1], commands[i].arg)
            /\ Len(move_forward(HostAtOrigin, commands[i].arg).primitives) = 1
            /\ IsMoveOf(move_forward(HostAtOrigin, commands[i].arg).primitives[1],
                        commands[i].arg)

\* a reverse move followed by a forward move
C12_Witness ==
    /\ Len(commands) = 2
    /\ commands[1] = Command("move_forward", <<-9, 1>>)
    /\ commands[2] = Command("move_forward", <<1, 10>>)
    /\ Len(built) = 2
    /\ built[1].v = <<-1, 4>>
    /\ built[2].v = <<1, 4>>

\* p turns in place by a degrees, counterclockwise for a > 0, at 45 deg/s
IsTurnOf(p, a) ==
    /\ p.type = "drive"
    /\ p.v = Zero
    /\ Mul(p.duration, <<45, 1>>) = MathAbs(a)
    /\ Gt(a, Zero) => p.w = <<1, 4>>
    /\ Lt(a, Zero) => p.w = <<-1, 4>>

\* the heading change, in units of PI, that integrating p from start makes
HeadingChange(p, start) ==
    Sub(Last(buildTrajectory(<<p>>, start, DefaultDt)).theta, start.theta)

\* C13: for every a # 0, turn_left(a) yields a drive with v = 0, duration
\* |a| / 45 and angular velocity +PI/4 for a > 0, -PI/4 for a < 0;
\* turn_right(a) yields exactly the primitive of turn_left(-a); integrating
\* changes the heading by +a degrees for turn_left, -a for turn_right.
\* Stated of the command last added: every command is the last one of the
\* list in some state.
C13_TurnPrimitives ==
    \A i \in {Len(commands)} \ {0} :
        LET a == commands[i].arg
            negated == Command("turn_left", Neg(commands[i].arg))
        IN  /\ (commands[i].op = "turn_left" /\ a # Zero) =>
                /\ Len(buildProgram(<<commands[i]>>)) = 1
                /\ IsTurnOf(buildProgram(<<commands[i]>>)[1], a)
                /\ turn_left(HostAtOrigin, a).primitives =
                       buildProgram(<<commands[i]>>)
                /\ \A start \in TrajStarts :
                       HeadingChange(buildProgram(<<commands[i]>>)[1], start) =
                           Div(a, <<180, 1>>)
            /\ (commands[i].op = "turn_right" /\ a # Zero) =>
                /\ Len(buildProgram(<<commands[i]>>)) = 1
                /\ IsTurnOf(buildProgram(<<commands[i]>>)[1], Neg(a))
                /\ buildProgram(<<commands[i]>>) = buildProgram(<<negated>>)
                /\ turn_right(HostAtOrigin, a).primitives =
                       turn_left(HostAtOrigin, Neg(a)).primitives
                /\ turn_right(HostAtOrigin, a).primitives =
                       buildProgram(<<commands[i]>>)
                /\ \A start \in TrajStarts :
                       HeadingChange(buildProgram(<<commands[i]>>)[1], start) =
                           Neg(Div(a, <<180, 1>>))

\* a left turn by a positive angle and a right turn by a negative one
C13_Witness ==
    /\ Len(commands) = 2
    /\ commands[1] = Command("turn_left", <<9, 1>>)
    /\ commands[2] = Command("turn_right", <<-9, 1>>)
    /\ Len(built) = 2
    /\ built[1].w = <<1, 4>>
    /\ built[2].w = <<1, 4>>

----------------------------------------------------------------------------
(* lib/trajectory.ts, buildTrajectory statement by statement, for a dt the
   caller chooses freely: the function does not inspect dt before use *)

\* Math.max(1, Math.round(duration / dt)) as a number: duration / 0 is
\* Infinity for a positive duration, and Math.round and Math.max keep it
stepCount(duration, dtv) ==
    IF dtv[1] = 0 THEN Infinity
    ELSE <<stepsOf(duration, dtv), 1>>

\* dt values a caller can pass: the default, coarser ones, zero, negatives
CallDts == { DefaultDt, <<1, 2>>, <<1, 1>>, Zero, <<-1, 50>>, <<-1, 1>> }

CallPrimitives ==
    { Drive(<<1, 4>>, Zero, <<2, 1>>), Drive(Zero, <<1, 4>>, <<1, 1>>),
      Drive(<<1, 4>>, Zero, Zero), SetPose(One, <<2, 1>>, <<1, 2>>) }

MaxCallProg == 2

MaxSamples == 6

CallPrograms ==
    UNION { [1..n -> CallPrimitives] : n \in 0..MaxCallProg }

\* a drive at the default dt takes 50 steps per second; the coarser steps
\* keep the loop short
CallInputs ==
    { <<prog, d>> \in CallPrograms \X CallDts :
        d = DefaultDt => \A k \in 1..Len(prog) :
            prog[k].type = "drive" => Le(prog[k].duration, Zero) }

\* const samples = []; let t = 0; let { x, y, theta } = startPose;
\* samples.push({ t, x, y, theta });
InitCall ==
    /\ \E inp \in CallInputs : callProgram = inp[1] /\ callDt = inp[2]
    /\ \E s \in TrajStarts :
           callState = [t |-> Zero, x |-> s.x, y |-> s.y, theta |-> s.theta]
    /\ callPc = 1
    /\ callLoop = <<>>
    /\ callCount = 1
    /\ callStatus = "running"
    /\ NotCallIdle

\* samples.push: the length is followed up to MaxSamples
pushCount(n) == IF n < MaxSamples THEN n + 1 ELSE n

\* for (const p of program): the head of one iteration, up to the inner loop
EnterPrimitive ==
    /\ callStatus = "running"
    /\ callLoop = <<>>
    /\ callPc <= Len(callProgram)
    /\ \E p \in {callProgram[callPc]} :
         IF p.type = "drive"
         THEN IF Le(p.duration, Zero)
              THEN /\ callPc' = callPc + 1
                   /\ UNCHANGED <<callLoop, callState, callCount>>
              ELSE /\ \E steps \in {stepCount(p.duration, callDt)} :
                          callLoop' = [at |-> "test", i |-> 0, steps |-> steps,
                                       dtStep |-> Div(p.duration, steps)]
                   /\ UNCHANGED <<callPc, callState, callCount>>
         ELSE /\ callState' = setPosePrimitive(callState, p).st
              /\ callCount' = pushCount(callCount)
              /\ callPc' = callPc + 1
              /\ UNCHANGED callLoop
    /\ UNCHANGED <<callProgram, callDt, callStatus>>
    /\ UNCHANGED notCallVars

\* for (let i = 0; i < steps; ...): the test of the loop condition
LoopTest ==
    /\ callStatus = "running"
    /\ callLoop # <<>>
    /\ callLoop.at = "test"
    /\ IF Lt(<<callLoop.i, 1>>, callLoop.steps)
       THEN /\ callLoop' = [callLoop EXCEPT !.at = "body"]
            /\ UNCHANGED callPc
       ELSE /\ callLoop' = <<>>
            /\ callPc' = callPc + 1
    /\ UNCHANGED <<callProgram, callDt, callState, callCount, callStatus>>
    /\ UNCHANGED notCallVars

\* the loop body, samples.push(...) and i++; i is followed up to MaxSamples
LoopBody ==
    /\ callStatus = "running"
    /\ callLoop # <<>>
    /\ callLoop.at = "body"
    /\ \E p \in {callProgram[callPc]} :
         callState' = Last(driveSteps(callState, p.v, p.w, callLoop.dtStep, 1))
    /\ callCount' = pushCount(callCount)
    /\ callLoop' = [callLoop EXCEPT !.at = "test", !.i = pushCount(callLoop.i)]
    /\ UNCHANGED <<callProgram, callDt, callPc, callStatus>>
    /\ UNCHANGED notCallVars

\* return samples;
Return ==
    /\ callStatus = "running"
    /\ callLoop = <<>>
    /\ callPc > Len(callProgram)
    /\ callStatus' = "returned"
    /\ UNCHANGED <<callProgram, callDt, callPc, callLoop, callState, callCount>>
    /\ UNCHANGED notCallVars

NextCall == EnterPrimitive \/ LoopTest \/ LoopBody \/ Return

SpecCall == InitCall /\ [][NextCall]_vars

\* the function runs synchronously: a statement that can run does run
SpecCallFair == SpecCall /\ WF_vars(NextCall)

\* C17: once buildTrajectory is called with a negative dt, the call does not
\* come back with a trajectory: it never reaches its return statement (the
\* function has no throw statement, so returning is the only other way out)
C17_NegativeDtRejected ==
    Lt(callDt, Zero) => callStatus # "returned"

\* C18: every call of buildTrajectory, whatever dt the caller passes, ends:
\* it eventually reaches its return statement
C18_Terminates == <>(callStatus = "returned")

----------------------------------------------------------------------------
(* sim/GridMapView.tsx: computeScan *)

\* const angle = startAngle + i * angleStep, for the loop index i
scanAngle(pose, numBeams, fovDeg, i) ==
    LET halfFovRad == Div(Div(Mul(fovDeg, PI), <<180, 1>>), <<2, 1>>)
        startAngle == Add(pose.theta, halfFovRad)
        endAngle == Sub(pose.theta, halfFovRad)
        angleStep == Div(Sub(endAngle, startAngle), <<numBeams - 1, 1>>)
    IN  Add(startAngle, Mul(<<i, 1>>, angleStep))

computeScanNoCentre(pose, obstacles, numBeams, fovDeg, range) ==
    [k \in 1..numBeams |->
        minDistLoop(range, [x |-> pose.x, y |-> pose.y],
                    rayDirOf(Add(pose.theta,
                                 Div(Div(Mul(fovDeg, PI), <<180, 1>>), <<2, 1>>))),
                    obstacles)]

computeScanUnclamped(pose, obstacles, numBeams, fovDeg, range) ==
    IF numBeams = 1
    THEN <<computeFrontDistanceUnclamped(pose, obstacles, range)>>
    ELSE [k \in 1..numBeams |->
             minDistLoop(Infinity, [x |-> pose.x, y |-> pose.y],
                         rayDirOf(scanAngle(pose, numBeams, fovDeg, k - 1)),
                         obstacles)]

computeScan(pose, obstacles, numBeams, fovDeg, range) ==
    IF numBeams = 1
    THEN <<computeFrontDistance(pose, obstacles, range)>>
    ELSE [k \in 1..numBeams |->
             minDistLoop(range, [x |-> pose.x, y |-> pose.y],
                         rayDirOf(scanAngle(pose, numBeams, fovDeg, k - 1)),
                         obstacles)]

\* the Mission 2 wall and the circle of test_sensors.ts, and degenerate
\* shapes: points and segments, on the rays of the poses below
ScanObstacles ==
    { Circle(<<3, 1>>, Zero, One),
      Rectangle(<<3, 1>>, Zero, <<1, 5>>, <<10, 1>>),
      Circle(<<3, 1>>, Zero, Zero),
      Circle(<<3, 2>>, <<2, 1>>, Zero),
      Rectangle(<<3, 1>>, Zero, Zero, <<10, 1>>),
      Rectangle(<<3, 1>>, Zero, <<2, 1>>, Zero),
      Rectangle(<<3, 1>>, Zero, Zero, Zero) }

ScanPoses ==
    { [x |-> px, y |-> Zero, theta |-> h] :
        px \in { Zero, <<3, 1>> }, h \in { Zero, <<1, 4>>, One } }

ScanBeams == 0..3

ScanFovs == { Zero, <<90, 1>>, <<180, 1>> }

ScanRanges == { <<DefaultMaxRange, 1>>, <<2, 1>> }

MaxScanObstacles == 2

InitScan ==
    /\ scanPose \in ScanPoses
    /\ scanWorld = <<>>
    /\ scanBeams \in ScanBeams
    /\ scanFov \in ScanFovs
    /\ scanRange \in ScanRanges
    /\ ranges = computeScan(scanPose, scanWorld, scanBeams, scanFov, scanRange)
    /\ NotScanIdle

ScanAddObstacle(o) ==
    /\ Len(scanWorld) < MaxScanObstacles
    /\ scanWorld' = Append(scanWorld, o)
    /\ ranges' = computeScan(scanPose, scanWorld', scanBeams, scanFov, scanRange)
    /\ UNCHANGED <<scanPose, scanBeams, scanFov, scanRange, notScanVars>>

\* the next scan, from another pose with the same beams, field of view and range
Scan(p) ==
    /\ p # scanPose
    /\ scanPose' = p
    /\ ranges' = computeScan(p, scanWorld, scanBeams, scanFov, scanRange)
    /\ UNCHANGED <<scanWorld, scanBeams, scanFov, scanRange, notScanVars>>

NextScan ==
    \/ \E o \in ScanObstacles : ScanAddObstacle(o)
    \/ \E p \in ScanPoses : Scan(p)

SpecScan == InitScan /\ [][NextScan]_vars

\* the heading of beam i of numBeams (i from 1): evenly spaced from
\* theta + fov/2 down to theta - fov/2, the centre for a single beam
BeamHeading(i) ==
    IF scanBeams = 1 THEN scanPose.theta
    ELSE Sub(Add(scanPose.theta, Div(scanFov, <<360, 1>>)),
             Div(Mul(<<i - 1, 1>>, scanFov), <<180 * (scanBeams - 1), 1>>))

\* C21: computeScan returns numBeams readings; reading i is what
\* computeFrontDistance returns from the same position with the heading of
\* beam i, the first beam at theta + fov/2 and the last at theta - fov/2; a
\* single beam reads computeFrontDistance(pose, world, maxRange)
C21_ScanIsFrontDistancePerBeam ==
    /\ Len(ranges) = scanBeams
    /\ \A i \in 1..Len(ranges) :
           ranges[i] = computeFrontDistance([scanPose EXCEPT !.theta = BeamHeading(i)],
                                            scanWorld, scanRange)
    /\ scanBeams = 1 =>
           ranges = <<computeFrontDistance(scanPose, scanWorld, scanRange)>>

\* three beams over 90 degrees from the origin: the outer beams pass the
\* circle of test_sensors.ts, the centre beam hits it at 2
C21_Witness ==
    /\ scanPose = Origin
    /\ scanWorld = <<Circle(<<3, 1>>, Zero, One)>>
    /\ scanBeams = 3
    /\ scanFov = <<90, 1>>
    /\ scanRange = <<5, 1>>
    /\ ranges = <<<<5, 1>>, <<2, 1>>, <<5, 1>>>>

\* a circle of radius 0, a rectangle of width 0 or height 0
Degenerate(o) ==
    IF o.type = "circle" THEN o.radius = Zero
    ELSE o.width = Zero \/ o.height = Zero

\* a number other than NaN, Infinity and -Infinity
IsFinite(r) == r # Null /\ r[2] > 0

\* C22: with a degenerate obstacle in the world, whether or not the ray runs
\* through its point or along its segment, every reading of computeScan and
\* the reading of computeFrontDistance is a finite number from 0 to
\* maxRange, and a hit the intersection routine reports on the degenerate
\* obstacle is a finite distance whose ray point lies on it
C22_DegenerateGeometry ==
    (\E i \in 1..Len(scanWorld) : Degenerate(scanWorld[i])) =>
        /\ \A r \in { ranges[k] : k \in 1..Len(ranges) }
                      \cup {computeFrontDistance(scanPose, scanWorld, scanRange)} :
               IsFinite(r) /\ Le(Zero, r) /\ Le(r, scanRange)
        /\ \A i \in { k \in 1..Len(scanWorld) : Degenerate(scanWorld[k]) } :
               \A h \in {obstacleDist([x |-> scanPose.x, y |-> scanPose.y],
                                      rayDirOf(scanPose.theta), scanWorld[i])} :
                   h # Null =>
                       /\ IsFinite(h)
                       /\ Le(Zero, h)
                       /\ InsideOrOn(RayPoint(scanPose, h), scanWorld[i])

\* heading 0 from the origin along the segment from (2, 0) to (4, 0), with
\* the point obstacle (3, 0) on it: the single beam reads 2
C22_Witness ==
    /\ scanPose = Origin
    /\ scanWorld = <<Rectangle(<<3, 1>>, Zero, <<2, 1>>, Zero),
                     Circle(<<3, 1>>, Zero, Zero)>>
    /\ obstacleDist([x |-> Zero, y |-> Zero], rayDirOf(Zero), scanWorld[2]) = <<3, 1>>
    /\ scanBeams = 1
    /\ scanRange = <<5, 1>>
    /\ ranges = <<<<2, 1>>>>

----------------------------------------------------------------------------
(* lib/pythonRunner.ts and lib/trajectory.ts with object identity: a pose   *)
(* object is a cell of heap, currentPose and a set_pose primitive's pose    *)
(* hold addresses, and updatePose writes through the address.               *)

\* the primitive as a value: its pose read through the address
derefPrimitive(hp, p) ==
    IF p.type = "set_pose" THEN [p EXCEPT !.pose = hp[p.pose]] ELSE p

derefPrimitives(hp, prims) ==
    [k \in 1..Len(prims) |-> derefPrimitive(hp, prims[k])]

\* a builtin that pushes a drive: the literal pushed is a fresh object of
\* numbers, and updatePose assigns to the fields of the object currentPose
\* holds
objDrive(hp, cur, prims, h) ==
    [heap |-> [hp EXCEPT ![cur] = h.currentPose],
     currentPoseRef |-> cur,
     primitiveRefs |-> Append(prims, Last(h.primitives))]

objSetPoseShared(hp, cur, prims, x, y, thetaDeg) ==
    [heap |-> Append(hp, set_pose([primitives |-> <<>>, currentPose |-> hp[cur]],
                                  x, y, thetaDeg).currentPose),
     currentPoseRef |-> Len(hp) + 1,
     primitiveRefs |-> Append(prims, [type |-> "set_pose", pose |-> Len(hp) + 1])]

\* currentPose = { x, y, theta }: a new object; the primitive pushed holds
\* { ...currentPose }, another new object with the same field values
objSetPose(hp, cur, prims, x, y, thetaDeg) ==
    LET pose == set_pose([primitives |-> <<>>, currentPose |-> hp[cur]],
                         x, y, thetaDeg).currentPose
    IN  [heap |-> hp \o <<pose, pose>>,
         currentPoseRef |-> Len(hp) + 1,
         primitiveRefs |-> Append(prims, [type |-> "set_pose", pose |-> Len(hp) + 2])]

ObjMoveArgs == { <<1, 10>>, <<-1, 20>> }
ObjTurnArgs == { <<9, 1>> }
ObjSetPoseArgs == { <<One, <<2, 1>>, <<90, 1>>>>, <<Zero, Zero, Zero>> }

MaxObjCalls == 3

\* let currentPose = { ...startPose }: cell 1 is the caller's startPose
\* object, cell 2 the copy
InitObj ==
    /\ heap = <<Origin, Origin>>
    /\ currentPoseRef = 2
    /\ primitiveRefs = <<>>
    /\ objRun = "running"
    /\ objSamples = <<>>
    /\ NotObjIdle

ObjHost ==
    [primitives |-> derefPrimitives(heap, primitiveRefs),
     currentPose |-> heap[currentPoseRef]]

\* the script calls are followed up to MaxObjCalls
ObjRunning == objRun = "running" /\ Len(primitiveRefs) < MaxObjCalls

ObjCalls(r) ==
    /\ heap' = r.heap
    /\ currentPoseRef' = r.currentPoseRef
    /\ primitiveRefs' = r.primitiveRefs
    /\ UNCHANGED <<objRun, objSamples, notObjVars>>

ObjMoveForward(d) ==
    /\ ObjRunning
    /\ ObjCalls(objDrive(heap, currentPoseRef, primitiveRefs, move_forward(ObjHost, d)))

ObjTurnLeft(a) ==
    /\ ObjRunning
    /\ ObjCalls(objDrive(heap, currentPoseRef, primitiveRefs, turn_left(ObjHost, a)))

ObjTurnRight(a) ==
    /\ ObjRunning
    /\ ObjCalls(objDrive(heap, currentPoseRef, primitiveRefs, turn_right(ObjHost, a)))

ObjSetPose(x, y, t) ==
    /\ ObjRunning
    /\ ObjCalls(objSetPose(heap, currentPoseRef, primitiveRefs, x, y, t))

\* resolve(primitives)
ObjResolve ==
    /\ objRun = "running"
    /\ objRun' = "resolved"
    /\ UNCHANGED <<heap, currentPoseRef, primitiveRefs, objSamples, notObjVars>>

\* buildTrajectory(program): it reads p.v, p.w, p.duration and p.pose.x,
\* p.pose.y, p.pose.theta into its own variables and assigns to no field
ObjBuildTrajectory ==
    /\ objRun = "resolved"
    /\ objRun' = "built"
    /\ objSamples' =
           buildTrajectory(derefPrimitives(heap, primitiveRefs), Origin, DefaultDt)
    /\ UNCHANGED <<heap, currentPoseRef, primitiveRefs, notObjVars>>

NextObj ==
    \/ \E d \in ObjMoveArgs : ObjMoveForward(d)
    \/ \E a \in ObjTurnArgs : ObjTurnLeft(a)
    \/ \E a \in ObjTurnArgs : ObjTurnRight(a)
    \/ \E a \in ObjSetPoseArgs : ObjSetPose(a[1], a[2], a[3])
    \/ ObjResolve
    \/ ObjBuildTrajectory

SpecObj == InitObj /\ [][NextObj]_vars

\* C27: every step of the host and of buildTrajectory leaves each primitive
\* already in the list as it is, read through its references: the list only
\* grows at its end, a set_pose primitive keeps the pose it was pushed with
\* while later calls move the tracked pose, and the caller's startPose
\* object keeps its values
C27_PrimitivesImmutable ==
    [][/\ Len(primitiveRefs') >= Len(primitiveRefs)
       /\ SubSeq(derefPrimitives(heap', primitiveRefs'), 1, Len(primitiveRefs))
              = derefPrimitives(heap, primitiveRefs)
       /\ heap'[1] = heap[1]]_vars

\* a set_pose followed by a move that changed the tracked pose, the list
\* then resolved and integrated
C27_Witness ==
    /\ objRun = "built"
    /\ Len(primitiveRefs) = 3
    /\ primitiveRefs[1].type = "set_pose"
    /\ primitiveRefs[2].type = "drive" /\ primitiveRefs[2].v # Zero
    /\ heap[primitiveRefs[1].pose] = [x |-> One, y |-> <<2, 1>>, theta |-> <<1, 2>>]
    /\ heap[currentPoseRef] # heap[primitiveRefs[1].pose]
    /\ Len(objSamples) > 1

----------------------------------------------------------------------------
(* Playback, one animation frame at a time: Mission1Layout, Mission2Layout, *)
(* SimulatorView and UAIbotView.  A run's trajectory is held by its length  *)
(* and by the success flag the adapter computes for its final sample.  A    *)
(* frame runs every animation callback that is requested at that time.      *)

Layouts == { "Mission1Layout", "Mission2Layout" }
PlayKinds == Layouts \cup { "SimulatorView", "UAIbotView" }

MaxPlayLen == 4
MaxRuns == 2
MaxReports == 2

\* onResult(success, path), counted up to MaxReports
countReport(n) == IF n < MaxReports THEN n + 1 ELSE n

\* SimulatorView's effect, re-run: the cleanup cancels the request held in
\* animationFrameRef, the guarded request is skipped because the ref is not
\* null, the request at the end of the effect is made
simulatorEffectLoops(loops) == (IF loops > 0 THEN loops - 1 ELSE 0) + 1

\* the state an effect that starts a run leaves
playReset(kind, loops) ==
    [step |-> 0, animating |-> TRUE, reported |-> FALSE,
     loops |-> IF kind = "SimulatorView" THEN simulatorEffectLoops(loops) ELSE 1]

\* the adapter is mounted and its effects have run once; SimulatorView's
\* effect requests animate twice on mount, animationFrameRef being null
InitPlay ==
    /\ playKind \in PlayKinds
    /\ playRunId = 0
    /\ playOnResult = 0
    /\ playLen \in 1..MaxPlayLen
    /\ playSuccess \in BOOLEAN
    /\ playStep = 0
    /\ playAnimating = TRUE
    /\ playReported = FALSE
    /\ playLoops = IF playKind = "SimulatorView" THEN 2 ELSE 1
    /\ playReports = 0
    /\ NotPlayIdle

playSet(r) ==
    /\ playStep' = r.step
    /\ playAnimating' = r.animating
    /\ playReported' = r.reported
    /\ playLoops' = r.loops

\* App sets a new program and runId: the adapter's run effect
RunEffect(len, success) ==
    /\ playRunId < MaxRuns
    /\ playRunId' = playRunId + 1
    /\ playLen' = len
    /\ playSuccess' = success
    /\ playReports' = 0
    /\ IF playKind = "UAIbotView"
       THEN playSet([step |-> 0, animating |-> playAnimating,
                     reported |-> playReported, loops |-> playLoops])
       ELSE playSet(playReset(playKind, playLoops))
    /\ UNCHANGED <<playKind, playOnResult, notPlayVars>>

\* App renders again for another reason and hands down a new handleResult
\* closure: SimulatorView's effect has onResult among its dependencies and
\* runs again; the layouts' build effect and UAIbotView's effect do not
ParentRenders ==
    /\ playOnResult' = 1 - playOnResult
    /\ IF playKind = "SimulatorView"
       THEN playSet(playReset(playKind, playLoops))
       ELSE UNCHANGED <<playStep, playAnimating, playReported, playLoops>>
    /\ UNCHANGED <<playKind, playRunId, playLen, playSuccess, playReports,
                   notPlayVars>>

\* the frame of the two layouts: the updater passed to setStepIndex
LayoutFrame ==
    /\ playKind \in Layouts
    /\ playAnimating
    /\ IF playStep + 1 >= playLen
       THEN /\ playAnimating' = FALSE
            /\ playLoops' = 0
            /\ playReported' = TRUE
            /\ playReports' =
                   IF playReported THEN playReports ELSE countReport(playReports)
            /\ playStep' = playLen - 1
       ELSE /\ playStep' = playStep + 1
            /\ UNCHANGED <<playAnimating, playLoops, playReported, playReports>>
    /\ UNCHANGED <<playKind, playRunId, playOnResult, playLen, playSuccess,
                   notPlayVars>>

\* one call of SimulatorView's animate; again: it requested the next frame
animate(st, len, success) ==
    IF st.step >= len - 1
    THEN [step |-> st.step,
          reported |-> TRUE,
          reports |-> IF st.reported THEN st.reports ELSE countReport(st.reports),
          animating |-> IF success THEN st.animating ELSE FALSE,
          again |-> success]
    ELSE [step |-> st.step + 1, reported |-> st.reported, reports |-> st.reports,
          animating |-> st.animating, again |-> TRUE]

\* a frame of SimulatorView: each requested callback runs animate
SimulatorFrame ==
    /\ playKind = "SimulatorView"
    /\ playLoops > 0
    /\ \E a \in {animate([step |-> playStep, reported |-> playReported,
                          reports |-> playReports, animating |-> playAnimating],
                         playLen, playSuccess)} :
         \E b \in {IF playLoops = 1 THEN a ELSE animate(a, playLen, playSuccess)} :
            /\ playStep' = b.step
            /\ playReported' = b.reported
            /\ playReports' = b.reports
            /\ playAnimating' = b.animating
            /\ playLoops' = IF playLoops = 1 THEN (IF a.again THEN 1 ELSE 0)
                            ELSE (IF a.again THEN 1 ELSE 0) + (IF b.again THEN 1 ELSE 0)
    /\ UNCHANGED <<playKind, playRunId, playOnResult, playLen, playSuccess,
                   notPlayVars>>

\* a frame of UAIbotView: the callback given to sim.setAnimationLoop
UAIbotFrame ==
    /\ playKind = "UAIbotView"
    /\ \E shown \in {IF playStep >= playLen THEN playLen - 1 ELSE playStep} :
           playStep' = IF shown < playLen - 1 THEN shown + 1 ELSE shown
    /\ UNCHANGED <<playKind, playRunId, playOnResult, playLen, playSuccess,
                   playAnimating, playReported, playLoops, playReports,
                   notPlayVars>>

NextPlay ==
    \/ \E len \in 1..MaxPlayLen, success \in BOOLEAN : RunEffect(len, success)
    \/ ParentRenders
    \/ LayoutFrame
    \/ SimulatorFrame
    \/ UAIbotFrame

SpecPlay == InitPlay /\ [][NextPlay]_vars

\* C23: for one run (one runId) a mission view calls onResult at most once,
\* and once its playback has ended (the animation has stopped) it has called
\* it exactly once
C23_ReportedOncePerRun ==
    playKind \in Layouts \cup { "SimulatorView" } =>
        /\ playReports <= 1
        /\ ~playAnimating => playReports = 1

\* C28: the step index is always within 0 .. length-1 of the current
\* trajectory; within a run a step of the adapter leaves it or advances it by
\* exactly one sample; a new run puts it at 0
C28_OneSamplePerFrame ==
    [][/\ playStep' \in 0..(playLen' - 1)
       /\ playRunId' = playRunId => playStep' \in { playStep, playStep + 1 }
       /\ playRunId' # playRunId => playStep' = 0]_vars

-----------------------------------------------------------------------------
(* App.handleRun running the Mission 2 starter script: the world handed to *)
(* runPython, and the script one statement at a time.                      *)

\* worldGeo: the crater as a circle when the mission has one, nothing else
handleRunWorld(w) ==
    IF "crater" \in DOMAIN w
    THEN <<Circle(w.crater.x, w.crater.y, w.crater.rx)>>
    ELSE <<>>

\* the run is followed up to this many primitives; the script's later
\* appends leave the list and the pose as they are
MaxStarterMoves == 40

starterHost == [primitives |-> starterPrimitives, currentPose |-> starterPose]

starterSet(h) ==
    /\ starterPrimitives' = h.primitives
    /\ starterPose' = h.currentPose

\* const startPose = currentMission.world.start;
\* runPython(code, worldGeo, startPose)
InitStarter ==
    /\ starterWorld = handleRunWorld(Mission2World)
    /\ starterPc = "set_pose"
    /\ starterPrimitives = <<>>
    /\ starterPose = Mission2World.start
    /\ starterD = Null
    /\ NotStarterIdle

\* set_pose(0, 0, 0)
StarterSetPose ==
    /\ starterPc = "set_pose"
    /\ starterSet(set_pose(starterHost, Zero, Zero, Zero))
    /\ starterPc' = "read"
    /\ UNCHANGED <<starterWorld, starterD>>
    /\ UNCHANGED notStarterVars

\* d = get_front_distance()
StarterRead ==
    /\ starterPc = "read"
    /\ starterD' = get_front_distance(starterHost, starterWorld)
    /\ starterPc' = "test"
    /\ UNCHANGED <<starterWorld, starterPrimitives, starterPose>>
    /\ UNCHANGED notStarterVars

\* if d < 0.5: break
StarterTest ==
    /\ starterPc = "test"
    /\ starterPc' = IF Lt(starterD, <<1, 2>>) THEN "resolved" ELSE "move"
    /\ UNCHANGED <<starterWorld, starterPrimitives, starterPose, starterD>>
    /\ UNCHANGED notStarterVars

\* move_forward(0.1)
StarterMove ==
    /\ starterPc = "move"
    /\ IF Len(starterPrimitives) < MaxStarterMoves
       THEN starterSet(move_forward(starterHost, <<1, 10>>))
       ELSE UNCHANGED <<starterPrimitives, starterPose>>
    /\ starterPc' = "read"
    /\ UNCHANGED <<starterWorld, starterD>>
    /\ UNCHANGED notStarterVars

NextStarter == StarterSetPose \/ StarterRead \/ StarterTest \/ StarterMove

SpecStarter == InitStarter /\ [][NextStarter]_vars

\* Skulpt runs the script's next statement whenever there is one
SpecStarterFair == SpecStarter /\ WF_vars(NextStarter)

\* C24: the Mission 2 starter script, run by handleRun in the Mission 2
\* world, eventually ends: the reading falls below 0.5, the loop breaks and
\* runPython resolves.
C24_StarterTerminates == <>(starterPc = "resolved")


-----------------------------------------------------------------------------
(* The sensor on both sides of a run: the script's get_front_distance()    *)
(* inside runPython as App.handleRun calls it, and the front distance the  *)
(* mission view computes for the sample it shows when the program is       *)
(* played.                                                                 *)

\* Mission1Layout: the crater in meters; Mission2Layout: the mission's
\* obstacles
Mission1SensorWorld(w) ==
    IF "crater" \in DOMAIN w
    THEN <<Circle(toMeters(w.crater.x, w.crater.y).x,
                  toMeters(w.crater.x, w.crater.y).y,
                  Div(w.crater.rx, SCALE))>>
    ELSE <<>>

Mission2SensorWorld(w) == w.obstacles

sensorWorld(kind, w) ==
    IF kind = "Mission1Layout" THEN Mission1SensorWorld(w)
    ELSE Mission2SensorWorld(w)

\* const dist = computeFrontDistance(currentPose, sensorWorld), with
\* currentPose = trajectory[stepIndex]
viewFrontDistance ==
    computeFrontDistance(senseTrajectory[senseStep + 1],
                         sensorWorld(senseMission[1], senseMission[2]),
                         <<DefaultMaxRange, 1>>)

SenseMissions ==
    { <<"Mission1Layout", Mission1World>>, <<"Mission2Layout", Mission2World>> }

SenseMoveArgs == { <<1, 10>>, <<-1, 10>> }
SenseSetPoseArgs == { <<Zero, Zero, Zero>>, <<<<2, 1>>, Zero, <<180, 1>>>> }

MaxSenseCalls == 2

senseHost == [primitives |-> sensePrimitives, currentPose |-> sensePose]

senseSet(h) ==
    /\ sensePrimitives' = h.primitives
    /\ sensePose' = h.currentPose

\* handleRun: runPython(code, worldGeo, currentMission.world.start)
InitSense ==
    /\ senseMission \in SenseMissions
    /\ sensePrimitives = <<>>
    /\ sensePose = senseMission[2].start
    /\ senseReading = Null
    /\ senseAt = 0
    /\ senseStage = "script"
    /\ senseTrajectory = <<>>
    /\ senseStep = 0
    /\ NotSenseIdle

SenseMoveForward(d) ==
    /\ senseStage = "script"
    /\ Len(sensePrimitives) < MaxSenseCalls
    /\ senseSet(move_forward(senseHost, d))
    /\ UNCHANGED <<senseMission, senseReading, senseAt, senseStage,
                   senseTrajectory, senseStep>>
    /\ UNCHANGED notSenseVars

SenseSetPose(a) ==
    /\ senseStage = "script"
    /\ Len(sensePrimitives) < MaxSenseCalls
    /\ senseSet(set_pose(senseHost, a[1], a[2], a[3]))
    /\ UNCHANGED <<senseMission, senseReading, senseAt, senseStage,
                   senseTrajectory, senseStep>>
    /\ UNCHANGED notSenseVars

SenseGetFrontDistance ==
    /\ senseStage = "script"
    /\ senseReading' =
           get_front_distance(senseHost, handleRunWorld(senseMission[2]))
    /\ senseAt' = Len(sensePrimitives)
    /\ UNCHANGED <<senseMission, sensePrimitives, sensePose, senseStage,
                   senseTrajectory, senseStep>>
    /\ UNCHANGED notSenseVars

\* the script ends: setProgram(prog), setRunId; the layout's effect builds
\* its trajectory and sets stepIndex to 0
SenseResolve ==
    /\ senseStage = "script"
    /\ senseStage' = "playing"
    /\ senseTrajectory' =
           viewTrajectory(senseMission[1], sensePrimitives, senseMission[2])
    /\ senseStep' = 0
    /\ UNCHANGED <<senseMission, sensePrimitives, sensePose, senseReading,
                   senseAt>>
    /\ UNCHANGED notSenseVars

\* one animation frame of the layout
SenseFrame ==
    /\ senseStage = "playing"
    /\ senseStep + 1 < Len(senseTrajectory)
    /\ senseStep' = senseStep + 1
    /\ UNCHANGED <<senseMission, sensePrimitives, sensePose, senseReading,
                   senseAt, senseStage, senseTrajectory>>
    /\ UNCHANGED notSenseVars

NextSense ==
    \/ \E d \in SenseMoveArgs : SenseMoveForward(d)
    \/ \E a \in SenseSetPoseArgs : SenseSetPose(a)
    \/ SenseGetFrontDistance
    \/ SenseResolve
    \/ SenseFrame

SpecSense == InitSense /\ [][NextSense]_vars

\* C25: the distance get_front_distance() returned to the script after its
\* last primitive equals the distance the mission's view computes at the
\* final sample of the trajectory of the same primitives.
C25_ScriptAndViewAgree ==
    ( /\ senseStage = "playing"
      /\ senseReading # Null
      /\ senseAt = Len(sensePrimitives)
      /\ senseStep + 1 = Len(senseTrajectory) ) =>
        viewFrontDistance = senseReading


-----------------------------------------------------------------------------
(* Two calls of runPython in flight.  Each call has its own primitives and *)
(* currentPose, and assigns its closures to the one Sk.builtins object; a  *)
(* script looks a name up in Sk.builtins when it calls it, and a script    *)
(* that suspends returns control to the page until it is resumed.          *)

RunIds == { 1, 2 }

Stmt(op, args) == [op |-> op, args |-> args]

\* the scripts in the editor; sleep stands for a statement that suspends
RunScripts ==
    { <<Stmt("move_forward", <<<<1, 10>>>>)>>,
      <<Stmt("turn_left", <<<<45, 1>>>>), Stmt("get_front_distance", <<>>)>>,
      <<Stmt("sleep", <<>>), Stmt("move_forward", <<<<-1, 20>>>>)>>,
      <<Stmt("set_pose", <<One, <<2, 1>>, <<90, 1>>>>), Stmt("sleep", <<>>),
        Stmt("get_front_distance", <<>>)>> }

\* the closure of one call of runPython applied to its state
hostApply(h, c) ==
    CASE c.op = "move_forward" -> move_forward(h, c.args[1])
      [] c.op = "turn_left" -> turn_left(h, c.args[1])
      [] c.op = "set_pose" -> set_pose(h, c.args[1], c.args[2], c.args[3])
      [] OTHER -> h

\* Sk.builtins[name] = ...: the closures of this call replace those of any
\* earlier call
installBuiltins(r) == r

\* the closures a script's call reaches: those installed last; with one
\* set of closures per run they would be the run's own
calleeOf(r) == skBuiltins

InitRuns ==
    /\ runsScript = [r \in RunIds |-> <<>>]
    /\ runsStatus = [r \in RunIds |-> "idle"]
    /\ runsPc = [r \in RunIds |-> 1]
    /\ runsHost = [r \in RunIds |-> [primitives |-> <<>>, currentPose |-> Origin]]
    /\ runsWorld = [r \in RunIds |-> [start |-> Origin, obstacles |-> <<>>]]
    /\ runsReadings = [r \in RunIds |-> <<>>]
    /\ skBuiltins = 0
    /\ NotRunsIdle

\* no script is executing: the page handles its next event
ThreadFree == \A r \in RunIds : runsStatus[r] # "running"

\* runPython(code, world, startPose) up to the start of the script
RunStart(r, script, env) ==
   
    /\ runsStatus[r] = "idle"
    /\ runsScript' = [runsScript EXCEPT ![r] = script]
    /\ runsStatus' = [runsStatus EXCEPT ![r] = "running"]
    /\ runsHost' = [runsHost EXCEPT
                       ![r] = [primitives |-> <<>>, currentPose |-> env[1]]]
    /\ runsWorld' = [runsWorld EXCEPT
                        ![r] = [start |-> env[1], obstacles |-> env[2]]]
    /\ skBuiltins' = installBuiltins(r)
    /\ UNCHANGED <<runsPc, runsReadings>>
    /\ UNCHANGED notRunsVars

RunAt(r, ops) ==
    /\ runsStatus[r] = "running"
    /\ runsPc[r] <= Len(runsScript[r])
    /\ runsScript[r][runsPc[r]].op \in ops

\* move_forward, turn_left, set_pose called by the script of run r
RunMotion(r) ==
    /\ RunAt(r, {"move_forward", "turn_left", "set_pose"})
    /\ runsHost' = [runsHost EXCEPT
                       ![calleeOf(r)] = hostApply(@, runsScript[r][runsPc[r]])]
    /\ runsPc' = [runsPc EXCEPT ![r] = @ + 1]
    /\ UNCHANGED <<runsScript, runsStatus, runsWorld, runsReadings, skBuiltins>>
    /\ UNCHANGED notRunsVars

\* get_front_distance() called by the script of run r
RunProbe(r) ==
    /\ RunAt(r, {"get_front_distance"})
    /\ runsReadings' =
           [runsReadings EXCEPT
               ![r] = Append(@, get_front_distance(runsHost[calleeOf(r)],
                                                   runsWorld[calleeOf(r)].obstacles))]
    /\ runsPc' = [runsPc EXCEPT ![r] = @ + 1]
    /\ UNCHANGED <<runsScript, runsStatus, runsHost, runsWorld, skBuiltins>>
    /\ UNCHANGED notRunsVars

\* the script suspends: asyncToPromise waits for the suspension's promise
RunSuspend(r) ==
    /\ RunAt(r, {"sleep"})
    /\ runsStatus' = [runsStatus EXCEPT ![r] = "suspended"]
    /\ runsPc' = [runsPc EXCEPT ![r] = @ + 1]
    /\ UNCHANGED <<runsScript, runsHost, runsWorld, runsReadings, skBuiltins>>
    /\ UNCHANGED notRunsVars

\* and resumes it
RunResume(r) ==
   
    /\ runsStatus[r] = "suspended"
    /\ runsStatus' = [runsStatus EXCEPT ![r] = "running"]
    /\ UNCHANGED <<runsScript, runsPc, runsHost, runsWorld, runsReadings, skBuiltins>>
    /\ UNCHANGED notRunsVars

\* the script ran to its end: resolve(primitives)
RunResolve(r) ==
    /\ runsStatus[r] = "running"
    /\ runsPc[r] > Len(runsScript[r])
    /\ runsStatus' = [runsStatus EXCEPT ![r] = "resolved"]
    /\ UNCHANGED <<runsScript, runsPc, runsHost, runsWorld, runsReadings, skBuiltins>>
    /\ UNCHANGED notRunsVars

NextRuns ==
    \E r \in RunIds :
        \/ \E script \in RunScripts, env \in HostRuns : RunStart(r, script, env)
        \/ RunMotion(r)
        \/ RunProbe(r)
        \/ RunSuspend(r)
        \/ RunResume(r)
        \/ RunResolve(r)

SpecRuns == InitRuns /\ [][NextRuns]_vars

\* a script run on its own from statement i on
RECURSIVE runAlone(_, _, _, _, _)
runAlone(script, i, h, obstacles, seen) ==
    IF i > Len(script) THEN [host |-> h, readings |-> seen]
    ELSE IF script[i].op = "get_front_distance"
         THEN runAlone(script, i + 1, h, obstacles,
                       Append(seen, get_front_distance(h, obstacles)))
         ELSE runAlone(script, i + 1, hostApply(h, script[i]), obstacles, seen)

-----------------------------------------------------------------------------
(* App: the stages, the mission and the mode, and the two progress maps.   *)

MISSIONS == <<"exo1-m1", "sensor_stop">>
MissionIds == { MISSIONS[i] : i \in 1..Len(MISSIONS) }

\* the missions that have a challenge, a teaching stage
hasChallenge(id) == id = "exo1-m1"
hasTeaching(id) == id = "exo1-m1"

\* ProgressMap: the missions whose entry is true
ProgressMaps == [MissionIds -> BOOLEAN]
NoProgress == [id \in MissionIds |-> FALSE]

\* what localStorage holds when the page is opened
Storages ==
    { [progress |-> pm, training |-> tm] :
        pm \in { NoProgress, [NoProgress EXCEPT !["sensor_stop"] = TRUE] },
        tm \in { NoProgress, [NoProgress EXCEPT !["exo1-m1"] = TRUE] } }

handleResultProgressAnyMode(success, challenge, id, completed, training) ==
    IF ~success THEN [completed |-> completed, training |-> training]
    ELSE [completed |-> [completed EXCEPT ![id] = TRUE],
          training |-> IF challenge THEN training
                       ELSE [training EXCEPT ![id] = TRUE]]

\* handleResult: the two maps after a report
handleResultProgress(success, challenge, id, completed, training) ==
    IF ~success THEN [completed |-> completed, training |-> training]
    ELSE IF ~challenge
         THEN [completed |-> completed,
               training |-> [training EXCEPT ![id] = TRUE]]
         ELSE [completed |-> [completed EXCEPT ![id] = TRUE],
               training |-> training]

\* handleDebriefComplete: the stage it goes to, and rewardSource
debriefStage(id, challenge) ==
    IF id = "exo1-m1" /\ challenge THEN "rewardMovement" ELSE "missions"

debriefReward(id, challenge, source) ==
    IF id = "exo1-m1" /\ challenge THEN "unlock" ELSE source

\* useState initial values
InitApp ==
    /\ appMounted = FALSE
    /\ localStorage \in Storages
    /\ savedProgress = NoProgress
    /\ savedTraining = NoProgress
    /\ currentMissionId = MISSIONS[1]
    /\ isChallengeMode = FALSE
    /\ activeStage = "missions"
    /\ rewardSource = "unlock"
    /\ completedMissions = NoProgress
    /\ trainingProgress = NoProgress
    /\ lastRunSuccess = "null"
    /\ layoutPending = FALSE
    /\ credited = {}
    /\ NotAppIdle

\* the effect of the first mount: the saved maps replace the empty ones
MountEffect ==
    /\ ~appMounted
    /\ appMounted' = TRUE
    /\ savedProgress' = localStorage.progress
    /\ savedTraining' = localStorage.training
    /\ completedMissions' = localStorage.progress
    /\ trainingProgress' = localStorage.training
    /\ currentMissionId' = MISSIONS[1]
    /\ UNCHANGED <<localStorage, isChallengeMode, activeStage, rewardSource,
                   lastRunSuccess, layoutPending, credited>>
    /\ UNCHANGED notAppVars

\* SolarSystemHome: handleSelectMission(id), then the playing stage; the
\* layout mounts with the empty program
onStartMission(id) ==
    /\ appMounted
    /\ activeStage = "missions"
    /\ currentMissionId' = id
    /\ isChallengeMode' = FALSE
    /\ lastRunSuccess' = "null"
    /\ activeStage' = "playing"
    /\ layoutPending' = TRUE
    /\ UNCHANGED <<appMounted, localStorage, savedProgress, savedTraining,
                   rewardSource, completedMissions, trainingProgress,
                   credited>>
    /\ UNCHANGED notAppVars

\* runPython resolved: setProgram(prog), setRunId; or it rejected
handleRun(resolved) ==
    /\ appMounted
    /\ activeStage = "playing"
    /\ lastRunSuccess' = "null"
    /\ layoutPending' = (resolved \/ layoutPending)
    /\ UNCHANGED <<appMounted, localStorage, savedProgress, savedTraining,
                   currentMissionId, isChallengeMode, activeStage,
                   rewardSource, completedMissions, trainingProgress,
                   credited>>
    /\ UNCHANGED notAppVars

\* onReset of the layouts (handleReset, handleResetToStarter):
\* setProgram([]), setRunId
handleReset ==
    /\ appMounted
    /\ activeStage = "playing"
    /\ lastRunSuccess' = "null"
    /\ layoutPending' = TRUE
    /\ UNCHANGED <<appMounted, localStorage, savedProgress, savedTraining,
                   currentMissionId, isChallengeMode, activeStage,
                   rewardSource, completedMissions, trainingProgress,
                   credited>>
    /\ UNCHANGED notAppVars

\* the layout reports the run it played
handleResult(success) ==
    /\ appMounted
    /\ activeStage = "playing"
    /\ layoutPending
    /\ layoutPending' = FALSE
    /\ lastRunSuccess' = IF success THEN "true" ELSE "false"
    /\ \E maps \in { handleResultProgress(success, isChallengeMode,
                                           currentMissionId, completedMissions,
                                           trainingProgress) } :
           /\ completedMissions' = maps.completed
           /\ trainingProgress' = maps.training
    /\ localStorage' =
           [progress |-> IF success /\ isChallengeMode THEN completedMissions'
                         ELSE localStorage.progress,
            training |-> IF success /\ ~isChallengeMode THEN trainingProgress'
                         ELSE localStorage.training]
    /\ credited' = IF success
                   THEN credited \cup { <<currentMissionId, isChallengeMode>> }
                   ELSE credited
    /\ UNCHANGED <<appMounted, savedProgress, savedTraining,
                   currentMissionId, isChallengeMode, activeStage,
                   rewardSource>>
    /\ UNCHANGED notAppVars

\* the button of the success dialog
handleStartDebrief ==
    /\ appMounted
    /\ activeStage = "playing"
    /\ lastRunSuccess = "true"
    /\ activeStage' = IF hasTeaching(currentMissionId) /\ ~isChallengeMode THEN "teaching"
                    ELSE debriefStage(currentMissionId, isChallengeMode)
    /\ rewardSource' = IF hasTeaching(currentMissionId) /\ ~isChallengeMode THEN rewardSource
                     ELSE debriefReward(currentMissionId, isChallengeMode,
                                        rewardSource)
    /\ lastRunSuccess' = IF hasTeaching(currentMissionId) /\ ~isChallengeMode THEN lastRunSuccess
                       ELSE "null"
    /\ layoutPending' = FALSE
    /\ UNCHANGED <<appMounted, localStorage, savedProgress, savedTraining,
                   currentMissionId, isChallengeMode, completedMissions,
                   trainingProgress, credited>>
    /\ UNCHANGED notAppVars

\* TeachingStage onComplete
handleDebriefComplete ==
    /\ appMounted
    /\ activeStage = "teaching"
    /\ activeStage' = debriefStage(currentMissionId, isChallengeMode)
    /\ rewardSource' = debriefReward(currentMissionId, isChallengeMode, rewardSource)
    /\ lastRunSuccess' = "null"
    /\ UNCHANGED <<appMounted, localStorage, savedProgress, savedTraining,
                   currentMissionId, isChallengeMode, completedMissions,
                   trainingProgress, layoutPending, credited>>
    /\ UNCHANGED notAppVars

\* TeachingStage onStartChallenge: the layout mounts with the empty program
handleStartChallenge ==
    /\ appMounted
    /\ activeStage = "teaching"
    /\ hasChallenge(currentMissionId)
    /\ isChallengeMode' = TRUE
    /\ lastRunSuccess' = "null"
    /\ activeStage' = "playing"
    /\ layoutPending' = TRUE
    /\ UNCHANGED <<appMounted, localStorage, savedProgress, savedTraining,
                   currentMissionId, rewardSource, completedMissions,
                   trainingProgress, credited>>
    /\ UNCHANGED notAppVars

\* onBack of either layout
onBack ==
    /\ appMounted
    /\ activeStage = "playing"
    /\ isChallengeMode' = IF currentMissionId = "exo1-m1" THEN FALSE ELSE isChallengeMode
    /\ activeStage' = IF currentMissionId = "exo1-m1" /\ isChallengeMode THEN "teaching"
                    ELSE "missions"
    /\ layoutPending' = FALSE
    /\ UNCHANGED <<appMounted, localStorage, savedProgress, savedTraining,
                   currentMissionId, rewardSource, completedMissions,
                   trainingProgress, lastRunSuccess, credited>>
    /\ UNCHANGED notAppVars

\* onOpenGarage of the home page and of Mission1Layout
goToGarage ==
    /\ appMounted
    /\ \/ activeStage = "missions"
       \/ activeStage = "playing" /\ currentMissionId = "exo1-m1"
    /\ activeStage' = "garage"
    /\ layoutPending' = FALSE
    /\ UNCHANGED <<appMounted, localStorage, savedProgress, savedTraining,
                   currentMissionId, isChallengeMode, rewardSource,
                   completedMissions, trainingProgress, lastRunSuccess,
                   credited>>
    /\ UNCHANGED notAppVars

\* RoverGarage
onCustomizeMovement ==
    /\ appMounted
    /\ activeStage = "garage"
    /\ rewardSource' = "garage"
    /\ activeStage' = "rewardMovement"
    /\ UNCHANGED <<appMounted, localStorage, savedProgress, savedTraining,
                   currentMissionId, isChallengeMode, completedMissions,
                   trainingProgress, lastRunSuccess, layoutPending, credited>>
    /\ UNCHANGED notAppVars

onGarageBack ==
    /\ appMounted
    /\ activeStage = "garage"
    /\ activeStage' = "missions"
    /\ UNCHANGED <<appMounted, localStorage, savedProgress, savedTraining,
                   currentMissionId, isChallengeMode, rewardSource,
                   completedMissions, trainingProgress, lastRunSuccess,
                   layoutPending, credited>>
    /\ UNCHANGED notAppVars

\* RoverMovementRewardStage onDone
onRewardDone ==
    /\ appMounted
    /\ activeStage = "rewardMovement"
    /\ activeStage' = IF rewardSource = "garage" THEN "garage" ELSE "missions"
    /\ lastRunSuccess' = IF rewardSource = "garage" THEN lastRunSuccess ELSE "null"
    /\ UNCHANGED <<appMounted, localStorage, savedProgress, savedTraining,
                   currentMissionId, isChallengeMode, rewardSource,
                   completedMissions, trainingProgress, layoutPending,
                   credited>>
    /\ UNCHANGED notAppVars

NextApp ==
    \/ MountEffect
    \/ \E id \in MissionIds : onStartMission(id)
    \/ handleReset
    \/ \E resolved \in BOOLEAN : handleRun(resolved)
    \/ \E success \in BOOLEAN : handleResult(success)
    \/ handleStartDebrief
    \/ handleDebriefComplete
    \/ handleStartChallenge
    \/ onBack
    \/ goToGarage
    \/ onCustomizeMovement
    \/ onGarageBack
    \/ onRewardDone

SpecApp == InitApp /\ [][NextApp]_vars

\* C30: completedMissions[m] is true only if a run of mission m was
\* reported successful in challenge mode or the entry was loaded from
\* storage, trainingProgress[m] only if one was reported successful in
\* training mode or the entry was loaded, and no step turns an entry of
\* either map back to false.
C30_ProgressOnlyGrows ==
    /\ [](\A id \in MissionIds :
            /\ completedMissions[id] =>
                   <<id, TRUE>> \in credited \/ savedProgress[id]
            /\ trainingProgress[id] =>
                   <<id, FALSE>> \in credited \/ savedTraining[id])
    /\ [][\A id \in MissionIds :
            /\ completedMissions[id] => completedMissions'[id]
            /\ trainingProgress[id] => trainingProgress'[id]]_vars

\* Mission 1 completed by a challenge run and trained by a training run,
\* neither loaded from storage, the challenge left, the mission reset and
\* a later run failed
C30_Witness ==
    /\ completedMissions["exo1-m1"] /\ ~savedProgress["exo1-m1"]
    /\ trainingProgress["exo1-m1"] /\ ~savedTraining["exo1-m1"]
    /\ ~isChallengeMode
    /\ lastRunSuccess = "false"

====
